---- MODULE Spec2Model ----
(***************************************************************************)
(* Agenda Mover: the scheduling core of src/src/utils/schedule.ts.         *)
(*                                                                         *)
(* Times are integer minutes.  A JavaScript string is a sequence of        *)
(* tokens, a template literal is the concatenation of its parts, and an    *)
(* optional field is None (absent) or Some(v).  Every function of the       *)
(* scheduling core is a loop over the activities in walk order; each loop  *)
(* body is a step operator, the function is the fold of its step, and the  *)
(* state machine runs a call one loop iteration at a time.                 *)
(***************************************************************************)
EXTENDS Integers, Sequences, FiniteSets, TLC

VARIABLES config, sections, activities, injections, fn, pc, st, todo

vars == <<config, sections, activities, injections, fn, pc, st, todo>>

----------------------------------------------------------------------------
(* Optional values and JavaScript truthiness *)

None == << >>

Some(x) == <<x>>

\* !!x for an optional number: undefined and 0 are falsy
Truthy(o) == o # None /\ o[1] # 0

\* x ?? d
OrElse(o, d) == IF o = None THEN d ELSE o[1]

Max(a, b) == IF a >= b THEN a ELSE b

----------------------------------------------------------------------------
(* Array.prototype.sort with a comparator: a stable sort.  c[i][j] is what  *)
(* the comparator returns for the i-th and the j-th element.  Element i     *)
(* goes before element j when the comparator says so, or when they compare  *)
(* equal and i stood first.                                                 *)

\* a sort that puts the later of two equal elements first
SortTiesReversed(s, c) ==
  LET n == Len(s)
      Rank(i) == Cardinality({j \in 1..n :
                    \/ c[j][i] < 0
                    \/ (c[j][i] = 0 /\ j > i)}) + 1
  IN  [k \in 1..n |-> s[CHOOSE i \in 1..n : Rank(i) = k]]

StableSort(s, c) ==
  LET n == Len(s)
      Rank(i) == Cardinality({j \in 1..n :
                    \/ c[j][i] < 0
                    \/ (c[j][i] = 0 /\ j < i)}) + 1
  IN  [k \in 1..n |-> s[CHOOSE i \in 1..n : Rank(i) = k]]

ByOrder(a, b) == a.order - b.order

\* array.sort(...) sorts the array it is called on
SortedInPlace(array, sorted) == [array |-> sorted, result |-> sorted]

\* [...array].sort(...): the copy is sorted, the array is left as it was
SortedCopy(array, sorted) == [array |-> array, result |-> sorted]

\* [...sections].sort((a, b) => a.order - b.order)
OrderedSections(secs) ==
  StableSort(secs, [i \in 1..Len(secs) |->
                      [j \in 1..Len(secs) |-> ByOrder(secs[i], secs[j])]])

\* an activity of "s9", which names no section, is put on every list
ActivitiesOfOrStray(acts, sid) ==
  SelectSeq(acts, LAMBDA a : a.sectionId = sid \/ a.sectionId = <<"s9">>)

\* the Map from section id to its activities, in their existing order;
\* an activity whose sectionId is no key of the Map is left out
ActivitiesOf(acts, sid) == SelectSeq(acts, LAMBDA a : a.sectionId = sid)

RECURSIVE WalkOrder(_, _)
\* for (const section of orderedSections) for (const activity of list)
WalkOrder(ordered, acts) ==
  IF ordered = << >> THEN << >>
  ELSE LET section == Head(ordered)
           list == ActivitiesOf(acts, section.id)
       IN  [i \in 1..Len(list) |-> [section |-> section, activity |-> list[i]]]
             \o WalkOrder(Tail(ordered), acts)

----------------------------------------------------------------------------
(* computeSchedule: the Direct Walker *)

\* a row that never ends before it starts
ActivityRowClamped(section, activity, clock) ==
  [id |-> activity.id, type |-> "activity", sectionId |-> Some(section.id),
   computed |-> FALSE, startMin |-> clock,
   endMin |-> clock + Max(0, activity.durationMin), activity |-> activity]

ActivityRow(section, activity, clock) ==
  [id |-> activity.id, type |-> "activity", sectionId |-> Some(section.id),
   computed |-> FALSE, startMin |-> clock,
   endMin |-> clock + activity.durationMin, activity |-> activity]

\* the row is pushed and the clock stays where it was
pushBreakClockKept(s, label, sectionId, durationMin) ==
  LET startMin == s.clock
      endMin == s.clock + durationMin
      row == [id |-> <<label, "-", startMin>>,
              type |-> IF label = "Lunch" THEN "lunch" ELSE "break",
              sectionId |-> sectionId, startMin |-> startMin, endMin |-> endMin,
              computed |-> TRUE, label |-> label]
  IN  [s EXCEPT !.rows = Append(s.rows, row), !.minutesSinceBreak = 0]

\* pushBreak(label, sectionId, durationMin)
pushBreak(s, label, sectionId, durationMin) ==
  LET startMin == s.clock
      endMin == s.clock + durationMin
      row == [id |-> <<label, "-", startMin>>,
              type |-> IF label = "Lunch" THEN "lunch" ELSE "break",
              sectionId |-> sectionId, startMin |-> startMin, endMin |-> endMin,
              computed |-> TRUE, label |-> label]
  IN  [s EXCEPT !.rows = Append(s.rows, row), !.clock = endMin,
                !.minutesSinceBreak = 0]

csInit(cfg) ==
  [rows |-> << >>, clock |-> cfg.dayStartMin, minutesSinceBreak |-> 0,
   lunchInserted |-> FALSE, returned |-> FALSE]

\* a break is due only when the activity alone is longer than the interval
csNeedBreakIgnoringTimer(cfg, s, activity) ==
  /\ Truthy(cfg.breakIntervalMin)
  /\ Truthy(cfg.breakDurationMin)
  /\ activity.durationMin > cfg.breakIntervalMin[1]

csNeedBreak(cfg, s, activity) ==
  /\ Truthy(cfg.breakIntervalMin)
  /\ Truthy(cfg.breakDurationMin)
  /\ s.minutesSinceBreak + activity.durationMin > cfg.breakIntervalMin[1]

\* an activity that ends exactly at the lunch target crosses it too
csCrossesLunchOrEndsAt(cfg, s, activity) ==
  /\ Truthy(cfg.lunchTargetMin)
  /\ Truthy(cfg.lunchDurationMin)
  /\ ~s.lunchInserted
  /\ s.clock < cfg.lunchTargetMin[1]
  /\ s.clock + activity.durationMin >= cfg.lunchTargetMin[1]

csCrossesLunch(cfg, s, activity) ==
  /\ Truthy(cfg.lunchTargetMin)
  /\ Truthy(cfg.lunchDurationMin)
  /\ ~s.lunchInserted
  /\ s.clock < cfg.lunchTargetMin[1]
  /\ s.clock + activity.durationMin > cfg.lunchTargetMin[1]

\* two independent tests: the break when it is due, and then the lunch
csBeforeBreakAndLunch(cfg, s, section, activity) ==
  LET s1 == IF csNeedBreak(cfg, s, activity)
              THEN pushBreak(s, "Break", Some(section.id), cfg.breakDurationMin[1])
            ELSE s
  IN  IF csCrossesLunch(cfg, s, activity)
        THEN [pushBreak(s1, "Lunch", Some(section.id), cfg.lunchDurationMin[1])
                EXCEPT !.lunchInserted = TRUE]
      ELSE s1

\* the break or lunch that goes before the activity
csBefore(cfg, s, section, activity) ==
  IF csCrossesLunch(cfg, s, activity)
    THEN [pushBreak(s, "Lunch", Some(section.id), cfg.lunchDurationMin[1])
            EXCEPT !.lunchInserted = TRUE]
  ELSE IF csNeedBreak(cfg, s, activity)
    THEN pushBreak(s, "Break", Some(section.id), cfg.breakDurationMin[1])
  ELSE s

\* minutesSinceBreak = activity.durationMin, where the code has +=
csPlaceTimerAssigned(s, section, activity) ==
  [s EXCEPT !.rows = Append(s.rows, ActivityRow(section, activity, s.clock)),
            !.clock = s.clock + activity.durationMin,
            !.minutesSinceBreak = activity.durationMin]

csPlace(s, section, activity) ==
  [s EXCEPT !.rows = Append(s.rows, ActivityRow(section, activity, s.clock)),
            !.clock = s.clock + activity.durationMin,
            !.minutesSinceBreak = s.minutesSinceBreak + activity.durationMin]

\* the overflow marker is pushed but the walk goes on
csOverflowNoReturn(cfg, s, section) ==
  IF s.clock > cfg.dayEndMin
    THEN [s EXCEPT !.rows = Append(s.rows,
             [id |-> <<"overflow", "-", s.clock>>, type |-> "overflow",
              sectionId |-> Some(section.id), startMin |-> cfg.dayEndMin,
              endMin |-> s.clock, computed |-> TRUE,
              label |-> "Runs past end of day"])]
  ELSE s

csOverflow(cfg, s, section) ==
  IF s.clock > cfg.dayEndMin
    THEN [s EXCEPT !.rows = Append(s.rows,
             [id |-> <<"overflow", "-", s.clock>>, type |-> "overflow",
              sectionId |-> Some(section.id), startMin |-> cfg.dayEndMin,
              endMin |-> s.clock, computed |-> TRUE,
              label |-> "Runs past end of day"]),
           !.returned = TRUE]
  ELSE s

\* one iteration of the inner loop
csStep(cfg, s, item) ==
  csOverflow(cfg,
             csPlace(csBefore(cfg, s, item.section, item.activity),
                     item.section, item.activity),
             item.section)

\* the lunch at the end is appended whether or not lunch was inserted
csFinishAlwaysLunch(cfg, ordered, s) ==
  IF /\ Truthy(cfg.lunchTargetMin)
     /\ Truthy(cfg.lunchDurationMin)
     /\ s.clock <= cfg.dayEndMin
     /\ cfg.lunchTargetMin[1] >= cfg.dayStartMin
    THEN [pushBreak(s, "Lunch",
                    IF ordered # << >> THEN Some(ordered[Len(ordered)].id) ELSE None,
                    cfg.lunchDurationMin[1])
            EXCEPT !.returned = TRUE]
  ELSE [s EXCEPT !.returned = TRUE]

\* the lunch at the end is appended only for a target up to the day's end
csFinishTargetWithinDay(cfg, ordered, s) ==
  IF /\ Truthy(cfg.lunchTargetMin)
     /\ Truthy(cfg.lunchDurationMin)
     /\ ~s.lunchInserted
     /\ cfg.lunchTargetMin[1] <= cfg.dayEndMin
     /\ cfg.lunchTargetMin[1] >= cfg.dayStartMin
    THEN [pushBreak(s, "Lunch",
                    IF ordered # << >> THEN Some(ordered[Len(ordered)].id) ELSE None,
                    cfg.lunchDurationMin[1])
            EXCEPT !.returned = TRUE]
  ELSE [s EXCEPT !.returned = TRUE]

\* after the loops: the lunch appended at the end
csFinish(cfg, ordered, s) ==
  IF /\ Truthy(cfg.lunchTargetMin)
     /\ Truthy(cfg.lunchDurationMin)
     /\ ~s.lunchInserted
     /\ s.clock <= cfg.dayEndMin
     /\ cfg.lunchTargetMin[1] >= cfg.dayStartMin
    THEN [pushBreak(s, "Lunch",
                    IF ordered # << >> THEN Some(ordered[Len(ordered)].id) ELSE None,
                    cfg.lunchDurationMin[1])
            EXCEPT !.returned = TRUE]
  ELSE [s EXCEPT !.returned = TRUE]

RECURSIVE csWalk(_, _, _)
csWalk(cfg, s, items) ==
  IF s.returned \/ items = << >> THEN s
  ELSE csWalk(cfg, csStep(cfg, s, Head(items)), Tail(items))

computeSchedule(cfg, secs, acts) ==
  LET ordered == OrderedSections(secs)
      s == csWalk(cfg, csInit(cfg), WalkOrder(ordered, acts))
  IN  IF s.returned THEN s.rows ELSE csFinish(cfg, ordered, s).rows

----------------------------------------------------------------------------
(* planInjections: the Injection Planner *)

\* truthiness of an optional string: undefined, null and '' are falsy
StrTruthy(o) == o # None /\ o[1] # << >>

NumDays(cfg) == Max(1, OrElse(cfg.numberOfDays, 1))

DayLen(cfg) == Max(1, cfg.dayEndMin - cfg.dayStartMin)

BreaksConfigured(cfg) == Truthy(cfg.breakDurationMin) /\ Truthy(cfg.breakIntervalMin)

Inj(idPrefix, type, label, sectionId, durationMin, anchor) ==
  [id |-> idPrefix \o anchor, type |-> type, label |-> label,
   sectionId |-> sectionId, durationMin |-> durationMin,
   anchorBeforeActivityId |-> anchor]

piInit ==
  [injections |-> << >>, dayIndex |-> 0, clockWithinDay |-> 0,
   minutesSinceBreak |-> 0, lunchPlanned |-> FALSE,
   preLunchBreakPlanned |-> FALSE, afterLunchStarted |-> FALSE,
   postLunchBreakPlanned |-> FALSE, lastActivityIdAfterLunch |-> None,
   returned |-> FALSE]

\* the post-lunch break owed when the day ends or the run ends
piOwesPostBreak(cfg, s) ==
  /\ s.afterLunchStarted
  /\ ~s.postLunchBreakPlanned
  /\ StrTruthy(s.lastActivityIdAfterLunch)
  /\ BreaksConfigured(cfg)

piPostBreak(cfg, s, sectionId) ==
  Inj(<<"inj-", "break-", "post-">>, "break", "Break", sectionId,
      cfg.breakDurationMin[1], s.lastActivityIdAfterLunch[1])

\* the planner stops only once the day index has passed the number of days
piDayEndOneDayMore(cfg, s, section, activity) ==
  IF s.clockWithinDay + activity.durationMin > DayLen(cfg)
    THEN LET s1 == IF piOwesPostBreak(cfg, s)
                     THEN [s EXCEPT !.injections =
                             Append(s.injections, piPostBreak(cfg, s, section.id)),
                                    !.postLunchBreakPlanned = TRUE]
                   ELSE s
         IN  IF s1.dayIndex + 1 > NumDays(cfg)
               THEN [s1 EXCEPT !.returned = TRUE]
             ELSE [s1 EXCEPT !.dayIndex = s1.dayIndex + 1,
                             !.clockWithinDay = 0,
                             !.minutesSinceBreak = 0,
                             !.lunchPlanned = FALSE,
                             !.preLunchBreakPlanned = FALSE,
                             !.afterLunchStarted = FALSE,
                             !.postLunchBreakPlanned = FALSE,
                             !.lastActivityIdAfterLunch = None]
  ELSE s

\* the activity does not fit in the rest of the day: next day, or stop
piDayEnd(cfg, s, section, activity) ==
  IF s.clockWithinDay + activity.durationMin > DayLen(cfg)
    THEN LET s1 == IF piOwesPostBreak(cfg, s)
                     THEN [s EXCEPT !.injections =
                             Append(s.injections, piPostBreak(cfg, s, section.id)),
                                    !.postLunchBreakPlanned = TRUE]
                   ELSE s
         IN  IF s1.dayIndex + 1 >= NumDays(cfg)
               THEN [s1 EXCEPT !.returned = TRUE]
             ELSE [s1 EXCEPT !.dayIndex = s1.dayIndex + 1,
                             !.clockWithinDay = 0,
                             !.minutesSinceBreak = 0,
                             !.lunchPlanned = FALSE,
                             !.preLunchBreakPlanned = FALSE,
                             !.afterLunchStarted = FALSE,
                             !.postLunchBreakPlanned = FALSE,
                             !.lastActivityIdAfterLunch = None]
  ELSE s

piCrossesBreak(cfg, s, activity) ==
  /\ Truthy(cfg.breakIntervalMin)
  /\ Truthy(cfg.breakDurationMin)
  /\ s.minutesSinceBreak + activity.durationMin > cfg.breakIntervalMin[1]

piCrossesLunch(cfg, s, activity) ==
  /\ Truthy(cfg.lunchTargetMin)
  /\ Truthy(cfg.lunchDurationMin)
  /\ ~s.lunchPlanned
  /\ cfg.lunchTargetMin[1] - cfg.dayStartMin > 0
  /\ s.clockWithinDay < cfg.lunchTargetMin[1] - cfg.dayStartMin
  /\ s.clockWithinDay + activity.durationMin > cfg.lunchTargetMin[1] - cfg.dayStartMin

\* if (crossesLunch) { pre-lunch break if none yet; lunch }
piLunch(cfg, s, section, activity) ==
  LET pre == IF ~s.preLunchBreakPlanned /\ BreaksConfigured(cfg)
               THEN <<Inj(<<"inj-", "break-", "pre-">>, "break", "Break", section.id,
                          cfg.breakDurationMin[1], activity.id)>>
             ELSE << >>
      lunch == Inj(<<"inj-", "lunch-">>, "lunch", "Lunch", section.id,
                   cfg.lunchDurationMin[1], activity.id)
  IN  [s EXCEPT !.injections = s.injections \o pre \o <<lunch>>,
                !.preLunchBreakPlanned = s.preLunchBreakPlanned \/ pre # << >>,
                !.clockWithinDay = s.clockWithinDay + cfg.lunchDurationMin[1],
                !.minutesSinceBreak = 0,
                !.lunchPlanned = TRUE,
                !.afterLunchStarted = TRUE,
                !.lastActivityIdAfterLunch = None]

\* else if (crossesBreak) { break }
piBreak(cfg, s, section, activity) ==
  [s EXCEPT !.injections =
              Append(s.injections,
                     Inj(<<"inj-", "break-">>, "break", "Break", section.id,
                         cfg.breakDurationMin[1], activity.id)),
            !.clockWithinDay = s.clockWithinDay + cfg.breakDurationMin[1],
            !.minutesSinceBreak = 0,
            !.postLunchBreakPlanned = s.postLunchBreakPlanned \/ s.afterLunchStarted]

piBefore(cfg, s, section, activity) ==
  IF piCrossesLunch(cfg, s, activity) THEN piLunch(cfg, s, section, activity)
  ELSE IF piCrossesBreak(cfg, s, activity) THEN piBreak(cfg, s, section, activity)
  ELSE s

\* Advance clock by activity
piPlace(s, activity) ==
  [s EXCEPT !.clockWithinDay = s.clockWithinDay + activity.durationMin,
            !.minutesSinceBreak = s.minutesSinceBreak + activity.durationMin,
            !.lastActivityIdAfterLunch =
               IF s.afterLunchStarted THEN Some(activity.id)
               ELSE s.lastActivityIdAfterLunch]

\* one iteration of the inner loop
piStep(cfg, s, item) ==
  LET s1 == piDayEnd(cfg, s, item.section, item.activity)
  IN  IF s1.returned THEN s1
      ELSE piPlace(piBefore(cfg, s1, item.section, item.activity), item.activity)

\* the lunch of the last day is anchored in the first section
piFinalLunchInFirstSection(cfg, ordered, acts, s) ==
  IF /\ Truthy(cfg.lunchTargetMin)
     /\ Truthy(cfg.lunchDurationMin)
     /\ ~s.lunchPlanned
     /\ ordered # << >>
     /\ s.dayIndex < NumDays(cfg)
    THEN LET first == ordered[1]
             firstList == ActivitiesOf(acts, first.id)
         IN  IF firstList # << >>
               THEN [s EXCEPT !.injections =
                       Append(s.injections,
                              Inj(<<"inj-", "lunch-">>, "lunch", "Lunch", first.id,
                                  cfg.lunchDurationMin[1], firstList[1].id))]
             ELSE s
  ELSE s

\* after the loops: lunch for the last day
piFinalLunch(cfg, ordered, acts, s) ==
  IF /\ Truthy(cfg.lunchTargetMin)
     /\ Truthy(cfg.lunchDurationMin)
     /\ ~s.lunchPlanned
     /\ ordered # << >>
     /\ s.dayIndex < NumDays(cfg)
    THEN LET last == ordered[Len(ordered)]
             lastList == ActivitiesOf(acts, last.id)
         IN  IF lastList # << >>
               THEN [s EXCEPT !.injections =
                       Append(s.injections,
                              Inj(<<"inj-", "lunch-">>, "lunch", "Lunch", last.id,
                                  cfg.lunchDurationMin[1], lastList[1].id))]
             ELSE s
  ELSE s

\* after the loops: the post-lunch break of the last day
piFinalPostBreak(cfg, ordered, acts, s) ==
  IF piOwesPostBreak(cfg, s)
    THEN [s EXCEPT !.injections =
            Append(s.injections,
                   piPostBreak(cfg, s,
                               IF ordered # << >> THEN ordered[Len(ordered)].id
                               ELSE IF acts # << >> THEN acts[1].sectionId
                               ELSE None))]
  ELSE s

piFinish(cfg, ordered, acts, s) ==
  [piFinalPostBreak(cfg, ordered, acts, piFinalLunch(cfg, ordered, acts, s))
     EXCEPT !.returned = TRUE]

RECURSIVE piWalk(_, _, _)
piWalk(cfg, s, items) ==
  IF s.returned \/ items = << >> THEN s
  ELSE piWalk(cfg, piStep(cfg, s, Head(items)), Tail(items))

planInjections(cfg, secs, acts) ==
  LET ordered == OrderedSections(secs)
      s == piWalk(cfg, piInit, WalkOrder(ordered, acts))
  IN  IF s.returned THEN s.injections
      ELSE piFinish(cfg, ordered, acts, s).injections

----------------------------------------------------------------------------
(* buildScheduleWithInjections: the Injection Renderer *)

\* the collation order of the tokens that occur in activity ids
Alphabet == <<"a1", "a2", "a3", "a4", "a5", "zz">>

TokenRank(c) == CHOOSE i \in 1..Len(Alphabet) : Alphabet[i] = c

RECURSIVE localeCompare(_, _)
\* a.localeCompare(b): negative, zero or positive
localeCompare(a, b) ==
  IF a = << >> /\ b = << >> THEN 0
  ELSE IF a = << >> THEN 0 - 1
  ELSE IF b = << >> THEN 1
  ELSE IF Head(a) = Head(b) THEN localeCompare(Tail(a), Tail(b))
  ELSE TokenRank(Head(a)) - TokenRank(Head(b))

ByAnchor(a, b) == localeCompare(a.anchorBeforeActivityId, b.anchorBeforeActivityId)

\* injMap.get(section.id) || []: the section's injections, sorted by anchor
SectionInjections(injs, sid) ==
  LET arr == SelectSeq(injs, LAMBDA inj : inj.sectionId = sid)
  IN  StableSort(arr, [i \in 1..Len(arr) |->
                        [j \in 1..Len(arr) |-> ByAnchor(arr[i], arr[j])]])

\* every injection of the section is taken, whatever its anchor
AnchoredOrNot(injs, section, activity) ==
  SectionInjections(injs, section.id)

\* the section's injections are gone through from the last to the first
AnchoredReversed(injs, section, activity) ==
  LET arr == SelectSeq(SectionInjections(injs, section.id),
                       LAMBDA inj : inj.anchorBeforeActivityId = activity.id)
  IN  [i \in 1..Len(arr) |-> arr[Len(arr) + 1 - i]]

\* sectionInj.filter((inj) => inj.anchorBeforeActivityId === activity.id)
Anchored(injs, section, activity) ==
  SelectSeq(SectionInjections(injs, section.id),
            LAMBDA inj : inj.anchorBeforeActivityId = activity.id)

\* the clock starts at 0, as the planner's clockWithinDay does
bwInitFromZero(cfg) ==
  [rows |-> << >>, dayIndex |-> 0, clock |-> 0, returned |-> FALSE]

bwInit(cfg) ==
  [rows |-> << >>, dayIndex |-> 0, clock |-> cfg.dayStartMin, returned |-> FALSE]

\* the next day's clock starts at 0, as the planner's clockWithinDay does
bwRollOverFromZero(cfg, s, section, durationMin) ==
  IF s.clock + durationMin > cfg.dayEndMin
    THEN IF s.dayIndex + 1 >= NumDays(cfg)
           THEN [s EXCEPT !.rows = Append(s.rows,
                    [id |-> <<"overflow", "-", s.clock>>, type |-> "overflow",
                     sectionId |-> Some(section.id), startMin |-> cfg.dayEndMin,
                     endMin |-> s.clock + durationMin, computed |-> TRUE,
                     label |-> "Runs past end of schedule"]),
                  !.returned = TRUE]
         ELSE [s EXCEPT !.dayIndex = s.dayIndex + 1, !.clock = 0]
  ELSE s

\* an item of the given duration does not fit: overflow and stop, or next day
bwRollOver(cfg, s, section, durationMin) ==
  IF s.clock + durationMin > cfg.dayEndMin
    THEN IF s.dayIndex + 1 >= NumDays(cfg)
           THEN [s EXCEPT !.rows = Append(s.rows,
                    [id |-> <<"overflow", "-", s.clock>>, type |-> "overflow",
                     sectionId |-> Some(section.id), startMin |-> cfg.dayEndMin,
                     endMin |-> s.clock + durationMin, computed |-> TRUE,
                     label |-> "Runs past end of schedule"]),
                  !.returned = TRUE]
         ELSE [s EXCEPT !.dayIndex = s.dayIndex + 1, !.clock = cfg.dayStartMin]
  ELSE s

InjectionRow(section, inj, clock) ==
  [id |-> inj.id, type |-> inj.type, sectionId |-> Some(section.id),
   startMin |-> clock, endMin |-> clock + inj.durationMin, computed |-> TRUE,
   label |-> inj.label]

RECURSIVE bwInjections(_, _, _, _)
\* for (const inj of anchored)
bwInjections(cfg, s, section, anchored) ==
  IF s.returned \/ anchored = << >> THEN s
  ELSE LET inj == Head(anchored)
           s1 == bwRollOver(cfg, s, section, inj.durationMin)
       IN  IF s1.returned THEN s1
           ELSE bwInjections(cfg,
                  [s1 EXCEPT !.rows = Append(s1.rows, InjectionRow(section, inj, s1.clock)),
                             !.clock = s1.clock + inj.durationMin],
                  section, Tail(anchored))

bwPlace(s, section, activity) ==
  [s EXCEPT !.rows = Append(s.rows, ActivityRow(section, activity, s.clock)),
            !.clock = s.clock + activity.durationMin]

\* one iteration of the inner loop
bwStep(cfg, injs, s, item) ==
  LET s1 == bwRollOver(cfg, s, item.section, item.activity.durationMin)
      s2 == bwInjections(cfg, s1, item.section,
                         Anchored(injs, item.section, item.activity))
  IN  IF s1.returned THEN s1
      ELSE IF s2.returned THEN s2
      ELSE bwPlace(s2, item.section, item.activity)

RECURSIVE bwWalk(_, _, _, _)
bwWalk(cfg, injs, s, items) ==
  IF s.returned \/ items = << >> THEN s
  ELSE bwWalk(cfg, injs, bwStep(cfg, injs, s, Head(items)), Tail(items))

buildScheduleWithInjections(cfg, secs, acts, injs) ==
  bwWalk(cfg, injs, bwInit(cfg), WalkOrder(OrderedSections(secs), acts)).rows

----------------------------------------------------------------------------
(* buildScheduleFromActivities: the Day-Partitioned Walker *)

\* the day number is left out of the comparison
ByOrderAlone(a, b) == a.order - b.order

ByDayThenOrder(a, b) ==
  LET ad == OrElse(a.dayNumber, 1)
      bd == OrElse(b.dayNumber, 1)
  IN  IF ad # bd THEN ad - bd ELSE a.order - b.order

DayOrderedSections(secs) ==
  StableSort(secs, [i \in 1..Len(secs) |->
                      [j \in 1..Len(secs) |-> ByDayThenOrder(secs[i], secs[j])]])

RECURSIVE DayWalkOrder(_, _)
\* the walk with the entry into each section made an item of its own
DayWalkOrder(ordered, acts) ==
  IF ordered = << >> THEN << >>
  ELSE LET section == Head(ordered)
           list == ActivitiesOf(acts, section.id)
       IN  <<[section |-> section]>>
             \o [i \in 1..Len(list) |-> [section |-> section, activity |-> list[i]]]
             \o DayWalkOrder(Tail(ordered), acts)

IsSectionEntry(item) == DOMAIN item = {"section"}

baInit(cfg, ordered) ==
  [rows |-> << >>, dayIndex |-> 0, clock |-> cfg.dayStartMin,
   minutesSinceBreak |-> 0,
   currentDayNumber |-> IF ordered # << >> THEN OrElse(ordered[1].dayNumber, 1) ELSE 1,
   returned |-> FALSE]

\* a section of another day is noted, but the clock runs on
baEnterKeepsClock(cfg, s, section) ==
  LET secDay == OrElse(section.dayNumber, s.currentDayNumber)
  IN  IF secDay # s.currentDayNumber
        THEN [s EXCEPT !.currentDayNumber = secDay, !.dayIndex = secDay - 1,
                       !.minutesSinceBreak = 0]
      ELSE s

\* a section entered after the end of the day starts at day start as well
baEnterWithinDay(cfg, s, section) ==
  LET secDay == OrElse(section.dayNumber, s.currentDayNumber)
  IN  IF secDay # s.currentDayNumber \/ s.clock > cfg.dayEndMin
        THEN [s EXCEPT !.currentDayNumber = secDay, !.dayIndex = secDay - 1,
                       !.clock = cfg.dayStartMin, !.minutesSinceBreak = 0]
      ELSE s

\* the head of the outer loop: a section of another day resets the clock
baEnter(cfg, s, section) ==
  LET secDay == OrElse(section.dayNumber, s.currentDayNumber)
  IN  IF secDay # s.currentDayNumber
        THEN [s EXCEPT !.currentDayNumber = secDay, !.dayIndex = secDay - 1,
                       !.clock = cfg.dayStartMin, !.minutesSinceBreak = 0]
      ELSE s

\* activity.isSystem && activity.systemKey?.startsWith('lunch:day')
IsLunchEntry(activity) ==
  /\ activity.isSystem
  /\ activity.systemKey # None
  /\ activity.systemKey[1] # << >>
  /\ Head(activity.systemKey[1]) = "lunch:day"

\* a lunch entry takes its time on the clock but gets no row
baPlaceUserRowsOnly(s, section, activity) ==
  IF IsLunchEntry(activity)
    THEN [s EXCEPT !.clock = s.clock + activity.durationMin,
                   !.minutesSinceBreak = 0]
  ELSE [s EXCEPT !.rows = Append(s.rows, ActivityRow(section, activity, s.clock)),
                 !.clock = s.clock + activity.durationMin,
                 !.minutesSinceBreak = s.minutesSinceBreak + activity.durationMin]

\* the body of the inner loop
baPlace(s, section, activity) ==
  [s EXCEPT !.rows = Append(s.rows, ActivityRow(section, activity, s.clock)),
            !.clock = s.clock + activity.durationMin,
            !.minutesSinceBreak =
               IF IsLunchEntry(activity) THEN 0
               ELSE s.minutesSinceBreak + activity.durationMin]

baStep(cfg, s, item) ==
  IF IsSectionEntry(item) THEN baEnter(cfg, s, item.section)
  ELSE baPlace(s, item.section, item.activity)

RECURSIVE baWalk(_, _, _)
baWalk(cfg, s, items) ==
  IF items = << >> THEN s
  ELSE baWalk(cfg, baStep(cfg, s, Head(items)), Tail(items))

buildScheduleFromActivities(cfg, secs, acts) ==
  LET ordered == DayOrderedSections(secs)
  IN  baWalk(cfg, baInit(cfg, ordered), DayWalkOrder(ordered, acts)).rows

----------------------------------------------------------------------------
(* parseTimeToMin of utils/time.ts.  A text is a sequence of characters. *)

Digits == <<"0", "1", "2", "3", "4", "5", "6", "7", "8", "9">>

IsDigit(c) == \E d \in 1..10 : Digits[d] = c

DigitValue(c) == (CHOOSE d \in 1..10 : Digits[d] = c) - 1

RECURSIVE Split(_)
\* value.split(':'): the parts between the colons, the empty ones included
Split(text) ==
  IF \A i \in 1..Len(text) : text[i] # ":" THEN <<text>>
  ELSE LET c == CHOOSE i \in 1..Len(text) :
                  text[i] = ":" /\ \A j \in 1..(i - 1) : text[j] # ":"
       IN  <<SubSeq(text, 1, c - 1)>> \o Split(SubSeq(text, c + 1, Len(text)))

RECURSIVE Trim(_)
\* the white space at both ends is no part of a numeric literal
Trim(text) ==
  IF text = << >> THEN text
  ELSE IF Head(text) = " " THEN Trim(Tail(text))
  ELSE IF text[Len(text)] = " " THEN Trim(SubSeq(text, 1, Len(text) - 1))
  ELSE text

RECURSIVE Decimal(_)
Decimal(digits) ==
  IF digits = << >> THEN 0
  ELSE 10 * Decimal(SubSeq(digits, 1, Len(digits) - 1))
         + DigitValue(digits[Len(digits)])

\* Number(part) for a text of digits, letters and blanks: the empty text and
\* the blank text are 0, a text of digits is its decimal value, any other
\* text is NaN (None)
Number(part) ==
  LET t == Trim(part)
  IN  IF \A i \in 1..Len(t) : IsDigit(t[i]) THEN Some(Decimal(t)) ELSE None

parseTimeToMin(value) ==
  IF value = << >> THEN None
  ELSE LET parts == Split(value)
       IN  IF Len(parts) < 2 THEN None
           ELSE LET h == Number(parts[1])
                    m == Number(parts[2])
                IN  IF h = None \/ m = None THEN None
                    ELSE Some(h[1] * 60 + m[1])

\* a % b of JavaScript: the remainder has the sign of a
Remainder(a, b) == IF a >= 0 THEN a % b ELSE 0 - ((0 - a) % b)

RECURSIVE DigitsOf(_)
\* the decimal digits of a natural number
DigitsOf(n) ==
  IF n < 10 THEN <<Digits[n + 1]>>
  ELSE DigitsOf(n \div 10) \o <<Digits[(n % 10) + 1]>>

\* n.toString() for an integer
toString(n) == IF n < 0 THEN <<"-">> \o DigitsOf(0 - n) ELSE DigitsOf(n)

RECURSIVE padStart(_, _, _)
\* text.padStart(length, fill) with a fill of one character
padStart(text, length, fill) ==
  IF Len(text) >= length THEN text
  ELSE padStart(<<fill>> \o text, length, fill)

\* the hour is taken on the 12-hour clock
formatMin12(min) ==
  LET h12 == Remainder(min \div 60, 12)
      minutes == Remainder(min, 60)
  IN  padStart(toString(h12), 2, "0") \o <<":">> \o padStart(toString(minutes), 2, "0")

\* formatMin24(min) for an integer min; Math.floor(min / 60) is min \div 60
formatMin24(min) ==
  LET h24 == Remainder(min \div 60, 24)
      minutes == Remainder(min, 60)
  IN  padStart(toString(h24), 2, "0") \o <<":">> \o padStart(toString(minutes), 2, "0")

----------------------------------------------------------------------------
(* The host's operations on its sections and activities.  Each is the      *)
(* updater it passes to setSections or setActivities, applied to the        *)
(* previous list.  Names and the other display fields are left out.         *)

\* Math.max(...prev.map((s) => s.order))
MaxOrder(prev) ==
  CHOOSE o \in {prev[k].order : k \in 1..Len(prev)} :
    \A k \in 1..Len(prev) : prev[k].order <= o

addSection(prev, id) ==
  LET order == IF Len(prev) # 0 THEN MaxOrder(prev) + 1 ELSE 1
  IN  Append(prev, [id |-> id, order |-> order, dayNumber |-> None])

\* the section goes and its activities stay
removeSectionKeepingActivities(secs, acts, id) ==
  [sections |-> SelectSeq(secs, LAMBDA s : s.id # id), activities |-> acts]

\* both setters of removeSection
removeSection(secs, acts, id) ==
  [sections |-> SelectSeq(secs, LAMBDA s : s.id # id),
   activities |-> SelectSeq(acts, LAMBDA a : a.sectionId # id)]

addActivity(prev, id, sectionId) ==
  Append(prev, [id |-> id, durationMin |-> 15, sectionId |-> sectionId,
                isSystem |-> FALSE, systemKey |-> None])

removeActivity(prev, id) == SelectSeq(prev, LAMBDA a : a.id # id)

\* prev.findIndex((a) => a.id === id): counted from 0, -1 when there is none
findIndex(prev, id) ==
  IF \E i \in 1..Len(prev) : prev[i].id = id
    THEN (CHOOSE i \in 1..Len(prev) :
            prev[i].id = id /\ \A j \in 1..(i - 1) : prev[j].id # id) - 1
  ELSE 0 - 1

\* next.splice(start, 1)
SpliceOut(s, start) ==
  [i \in 1..(Len(s) - 1) |-> IF i <= start THEN s[i] ELSE s[i + 1]]

\* next.splice(start, 0, item): a start past the end is the end
SpliceIn(s, start, item) ==
  LET at == IF start > Len(s) THEN Len(s) ELSE start
  IN  SubSeq(s, 1, at) \o <<item>> \o SubSeq(s, at + 1, Len(s))

\* the place after the last activity of the section, or the end of the list
EndOfSection(prev, targetSection) ==
  LET indicesInSection == {i \in 0..(Len(prev) - 1) : prev[i + 1].sectionId = targetSection}
  IN  IF indicesInSection # {}
        THEN (CHOOSE i \in indicesInSection : \A j \in indicesInSection : j <= i) + 1
      ELSE Len(prev)

\* the moved activity is put in at the target index as it was counted
\* before the removal
reorderNoShift(prev, id, overId, overSectionId) ==
  LET fromIdx == findIndex(prev, id)
  IN  IF fromIdx < 0 THEN prev
      ELSE LET moving == prev[fromIdx + 1]
               section == OrElse(overSectionId, moving.sectionId)
               overIdx == IF overId # None /\ overId[1] # << >>
                            THEN findIndex(prev, overId[1])
                          ELSE 0 - 1
               targetSection == IF overIdx >= 0 THEN prev[overIdx + 1].sectionId
                                ELSE section
               targetIdx == IF overId # None /\ overId[1] # << >>
                              THEN IF overIdx >= 0 THEN overIdx ELSE Len(prev)
                            ELSE IF targetSection # << >>
                              THEN EndOfSection(prev, targetSection)
                            ELSE Len(prev)
               updated == [moving EXCEPT !.sectionId = targetSection]
           IN  SpliceIn(SpliceOut(prev, fromIdx), targetIdx, updated)

\* reorder(id, overId, overSectionId): the updater given to setActivities
reorder(prev, id, overId, overSectionId) ==
  LET fromIdx == findIndex(prev, id)
  IN  IF fromIdx < 0 THEN prev
      ELSE LET moving == prev[fromIdx + 1]
               section == OrElse(overSectionId, moving.sectionId)
               overIdx == IF overId # None /\ overId[1] # << >>
                            THEN findIndex(prev, overId[1])
                          ELSE 0 - 1
               targetSection == IF overIdx >= 0 THEN prev[overIdx + 1].sectionId
                                ELSE section
               targetIdx == IF overId # None /\ overId[1] # << >>
                              THEN IF overIdx >= 0 THEN overIdx ELSE Len(prev)
                            ELSE IF targetSection # << >>
                              THEN EndOfSection(prev, targetSection)
                            ELSE Len(prev)
               updated == [moving EXCEPT !.sectionId = targetSection]
           IN  SpliceIn(SpliceOut(prev, fromIdx),
                        IF targetIdx > fromIdx THEN targetIdx - 1 ELSE targetIdx,
                        updated)

----------------------------------------------------------------------------
(* The arguments the calls are made with *)

MaxActivities == 3

Cfg(start, end, days, breaks, lunch) ==
  [dayStartMin |-> start, dayEndMin |-> end, numberOfDays |-> days,
   breakIntervalMin |-> breaks[1], breakDurationMin |-> breaks[2],
   lunchTargetMin |-> lunch[1], lunchDurationMin |-> lunch[2]]

Off == <<None, None>>

On(a, b) == <<Some(a), Some(b)>>

Sec(id, order, day) == [id |-> <<id>>, order |-> order, dayNumber |-> day]

Tpl(d, sid) == [durationMin |-> d, sectionId |-> <<sid>>]

\* the i-th activity of a list carries the i-th id
Activities(f) ==
  [i \in 1..Len(f) |->
     [id |-> <<Alphabet[i]>>, durationMin |-> f[i].durationMin,
      sectionId |-> f[i].sectionId, isSystem |-> FALSE, systemKey |-> None]]

ActivityLists(n, Templates) ==
  {Activities(f) : f \in UNION {[1..k -> Templates] : k \in 0..n}}

Args(Configs, SectionLists, ActLists, InjLists) ==
  [config : Configs, sections : SectionLists, activities : ActLists,
   injections : InjLists]

\* a day of five minutes that starts at minute 1; a break is due after two
\* minutes and lasts one, lunch is due at minute 3 and lasts one
MainConfigs ==
  {Cfg(1, 6, days, breaks, lunch) :
     days \in {None, Some(2)}, breaks \in {Off, On(2, 1)}, lunch \in {Off, On(3, 1)}}

MainSections ==
  { <<Sec("s1", 1, None)>>,
    <<Sec("s1", 2, None), Sec("s2", 1, Some(2))>>,
    <<Sec("s1", 1, Some(2)), Sec("s2", 1, None)>> }

MainTemplates ==
  {Tpl(1, "s1"), Tpl(2, "s1"), Tpl(3, "s2"), Tpl(0, "s2"), Tpl(0 - 1, "s1"), Tpl(2, "s9")}

MainInjections ==
  { << >>,
    <<Inj(<<"i1-">>, "lunch", "Lunch", <<"s1">>, 2, <<"a2">>),
      Inj(<<"i2-">>, "break", "Break", <<"s1">>, 1, <<"a1">>),
      Inj(<<"i3-">>, "break", "Break", <<"s2">>, 1, <<"a2">>)>>,
    <<Inj(<<"i4-">>, "break", "Break", <<"s1">>, 0 - 1, <<"a2">>)>> }

MainArgs ==
  Args(MainConfigs, MainSections, ActivityLists(MaxActivities, MainTemplates),
       MainInjections)

\* the scenario of the Direct Walker: 9:00 to 16:00, a break of 15 minutes
\* every 60, with and without a lunch of 60 minutes at 12:00
ScenarioBreaks == Cfg(540, 960, None, On(60, 15), Off)

ScenarioLunch == Cfg(540, 960, None, On(60, 15), On(720, 60))

ScenarioTemplates ==
  {Tpl(d, "s1") : d \in {20, 30, 45, 90, 160, 180, 240}}

ScenarioArgs ==
  Args({ScenarioBreaks, ScenarioLunch}, {<<Sec("s1", 1, None)>>},
       ActivityLists(MaxActivities, ScenarioTemplates), {<< >>})

\* the Direct Walker on the five-minute day, with more break and lunch settings
DirectConfigs ==
  {Cfg(1, 6, days, breaks, lunch) :
     days \in {None, Some(2)},
     breaks \in {Off, On(2, 1), On(3, 2)},
     lunch \in {Off, On(3, 1), On(4, 2), On(6, 1)}}

DirectSections ==
  { <<Sec("s1", 1, None)>>, <<Sec("s1", 2, None), Sec("s2", 1, None)>> }

\* "s9" names no section
DirectTemplates ==
  {Tpl(1, "s1"), Tpl(2, "s1"), Tpl(3, "s1"), Tpl(2, "s2"), Tpl(0, "s2"),
   Tpl(0 - 1, "s1"), Tpl(3, "s9")}

DirectArgs ==
  Args(DirectConfigs, DirectSections,
       ActivityLists(MaxActivities, DirectTemplates), {<< >>})

\* the Direct Walker with a lunch target before, at, within, at the end of
\* and after the day from minute 2 to minute 6, and on a day that ends
\* before it starts; with no section, one section, or two
FinalLunchConfigs ==
  {Cfg(2, 6, None, Off, On(target, 1)) : target \in {1, 2, 4, 6, 7}}
    \cup {Cfg(6, 2, None, Off, On(4, 1)), Cfg(2, 6, None, On(2, 1), On(7, 1))}

FinalLunchSections ==
  { << >>, <<Sec("s1", 1, None)>>, <<Sec("s1", 2, None), Sec("s2", 1, None)>> }

FinalLunchTemplates ==
  {Tpl(1, "s1"), Tpl(2, "s1"), Tpl(3, "s2"), Tpl(0 - 1, "s1")}

FinalLunchArgs ==
  Args(FinalLunchConfigs, FinalLunchSections,
       ActivityLists(MaxActivities, FinalLunchTemplates), {<< >>})

\* the Injection Planner on the five-minute day, over one or two days, and
\* on a day of eight minutes with lunch due at minute 6, after a first break
PlanConfigs ==
  {Cfg(1, 6, days, breaks, lunch) :
     days \in {None, Some(2)}, breaks \in {Off, On(2, 1)}, lunch \in {Off, On(3, 1)}}
    \cup {Cfg(1, 9, days, On(2, 1), On(6, 1)) : days \in {None, Some(2)}}

PlanSections ==
  { <<Sec("s1", 1, None)>>, <<Sec("s1", 1, None), Sec("s2", 2, None)>> }

PlanTemplates ==
  {Tpl(1, "s1"), Tpl(2, "s1"), Tpl(3, "s1"), Tpl(1, "s2"), Tpl(2, "s2")}

PlanArgs ==
  Args(PlanConfigs, PlanSections, ActivityLists(MaxActivities, PlanTemplates),
       {<< >>})

\* the Injection Renderer, fed injection lists of its caller's making: an
\* anchor names the first or the second activity, or no activity at all
MaxInjections == 2

RenderConfigs == {Cfg(1, 6, days, Off, Off) : days \in {None, Some(2)}}

RenderSections == { <<Sec("s1", 2, None), Sec("s2", 1, None)>> }

RenderTemplates == {Tpl(1, "s1"), Tpl(3, "s1"), Tpl(2, "s2")}

InjTpl(type, sid, d, anchor) ==
  [type |-> type, sectionId |-> <<sid>>, durationMin |-> d,
   anchorBeforeActivityId |-> <<anchor>>]

InjTemplates ==
  {InjTpl("break", "s1", 1, anchor) : anchor \in {"a2", "a1", "zz"}}
    \cup {InjTpl("lunch", "s2", 2, anchor) : anchor \in {"a2", "a1", "zz"}}

\* the i-th injection of a list carries the i-th id
Injections(f) ==
  [i \in 1..Len(f) |->
     [id |-> <<"inj-", Alphabet[i]>>, type |-> f[i].type,
      label |-> IF f[i].type = "lunch" THEN "Lunch" ELSE "Break",
      sectionId |-> f[i].sectionId, durationMin |-> f[i].durationMin,
      anchorBeforeActivityId |-> f[i].anchorBeforeActivityId]]

InjectionLists(n, Templates) ==
  {Injections(f) : f \in UNION {[1..k -> Templates] : k \in 0..n}}

RenderArgs ==
  Args(RenderConfigs, RenderSections,
       ActivityLists(MaxActivities, RenderTemplates),
       InjectionLists(MaxInjections, InjTemplates))

\* the Day-Partitioned Walker: sections with and without day numbers, two
\* sections with one day and one order, a day number below 1; an activity
\* in "s9", which names no section; a first activity that is the lunch entry
\* of day 1
DayWalkConfigs == {Cfg(1, 6, days, Off, Off) : days \in {None, Some(2)}}

DayWalkSections ==
  { <<Sec("s1", 1, None)>>,
    <<Sec("s1", 1, Some(2)), Sec("s2", 2, None), Sec("s3", 1, Some(2))>>,
    <<Sec("s1", 2, Some(1)), Sec("s2", 1, Some(3)), Sec("s3", 1, None)>>,
    <<Sec("s1", 1, Some(0)), Sec("s2", 2, None)>> }

DayWalkTemplates ==
  {Tpl(1, "s1"), Tpl(3, "s1"), Tpl(2, "s2"), Tpl(0, "s2"), Tpl(4, "s3"),
   Tpl(2, "s9")}

\* the first activity as a system activity, the lunch entry of day 1
MarkLunch(acts) ==
  [acts EXCEPT ![1].isSystem = TRUE, ![1].systemKey = Some(<<"lunch:day", "1">>)]

DayWalkActivityLists ==
  LET lists == ActivityLists(MaxActivities, DayWalkTemplates)
  IN  lists \cup {MarkLunch(acts) : acts \in lists \ {<< >>}}

DayWalkArgs ==
  Args(DayWalkConfigs, DayWalkSections, DayWalkActivityLists, {<< >>})

\* the three row producers on the same arguments: three sections, two of
\* them with one order and one day number, in two arrangements; activities
\* of every section in any order of the list
ProducerConfigs ==
  {Cfg(1, 6, None, On(2, 1), On(3, 1)), Cfg(1, 9, Some(2), Off, Off)}

ProducerSections ==
  { <<Sec("s1", 1, Some(2)), Sec("s2", 2, None), Sec("s3", 1, Some(2))>>,
    <<Sec("s1", 2, None), Sec("s2", 1, Some(2)), Sec("s3", 2, None)>> }

ProducerTemplates == {Tpl(1, "s1"), Tpl(2, "s2"), Tpl(1, "s3"), Tpl(2, "s9")}

ProducerInjections ==
  { << >>,
    <<Inj(<<"i1-">>, "break", "Break", <<"s1">>, 1, <<"a1">>),
      Inj(<<"i2-">>, "lunch", "Lunch", <<"s3">>, 1, <<"a2">>)>> }

ProducerArgs ==
  Args(ProducerConfigs, ProducerSections,
       ActivityLists(MaxActivities, ProducerTemplates), ProducerInjections)

\* the three row producers where they are to agree: no breaks, one day,
\* no day numbers; and, next to these, a lunch, a second day, a day number,
\* a duration of 0 and an activity of no section
AgreeConfigs ==
  {Cfg(1, 6, days, Off, lunch) :
     days \in {None, Some(1), Some(2)}, lunch \in {Off, On(3, 1)}}

AgreeSections ==
  { <<Sec("s1", 2, None), Sec("s2", 1, None)>>,
    <<Sec("s1", 1, None), Sec("s2", 1, Some(2))>> }

AgreeTemplates ==
  {Tpl(1, "s1"), Tpl(2, "s1"), Tpl(2, "s2"), Tpl(3, "s2"), Tpl(0, "s1"),
   Tpl(1, "s9")}

AgreeArgs ==
  Args(AgreeConfigs, AgreeSections,
       ActivityLists(MaxActivities, AgreeTemplates), {<< >>})

\* the Day-Partitioned Walker on a day from minute 1 to minute 6, of two
\* days: activities that run past minute 6, a lunch entry, two days
IgnoredConfigs == {Cfg(1, 6, Some(2), Off, Off)}

IgnoredSections ==
  { <<Sec("s1", 1, None), Sec("s2", 2, None)>>,
    <<Sec("s1", 1, Some(2)), Sec("s2", 2, None)>> }

IgnoredTemplates == {Tpl(2, "s1"), Tpl(4, "s1"), Tpl(3, "s2"), Tpl(1, "s9")}

IgnoredActivityLists ==
  LET lists == ActivityLists(MaxActivities, IgnoredTemplates)
  IN  lists \cup {MarkLunch(acts) : acts \in lists \ {<< >>}}

IgnoredArgs ==
  Args(IgnoredConfigs, IgnoredSections, IgnoredActivityLists, {<< >>})

\* the round trip: the planner, then the renderer on what the planner
\* returned.  Sections carry day numbers; the last config is a day of no
\* length
RoundTripConfigs ==
  {Cfg(1, 6, days, breaks, lunch) :
     days \in {None, Some(2)}, breaks \in {Off, On(2, 1)}, lunch \in {Off, On(3, 1)}}
    \cup {Cfg(2, 2, Some(3), Off, Off)}

RoundTripSections ==
  { <<Sec("s1", 1, None)>>,
    <<Sec("s1", 1, Some(1)), Sec("s2", 2, Some(2))>>,
    <<Sec("s1", 2, Some(2)), Sec("s2", 1, None)>> }

RoundTripTemplates ==
  {Tpl(1, "s1"), Tpl(3, "s1"), Tpl(0, "s1"), Tpl(2, "s2"), Tpl(4, "s2")}

RoundTripArgs ==
  Args(RoundTripConfigs, RoundTripSections,
       ActivityLists(MaxActivities, RoundTripTemplates), {<< >>})

\* the texts parseTimeToMin is given: up to MaxText characters
MaxText == 5

Chars == {"0", "1", "2", "9", ":", "a", " "}

Texts == UNION {[1..n -> Chars] : n \in 0..MaxText}

----------------------------------------------------------------------------
(* The state machine: a call runs its loop one iteration at a time *)

\* the configuration the application starts with, and nothing to schedule
Init ==
  /\ config = Cfg(540, 960, Some(1), On(90, 15), On(720, 60))
  /\ sections = << >>
  /\ activities = << >>
  /\ injections = << >>
  /\ fn = "none"
  /\ pc = "idle"
  /\ st = [rows |-> << >>]
  /\ todo = << >>

Call(name, a) ==
  /\ config' = a.config
  /\ sections' = a.sections
  /\ activities' = a.activities
  /\ injections' = a.injections
  /\ fn' = name
  /\ pc' = "entry"
  /\ st' = [rows |-> << >>]
  /\ todo' = << >>

\* the call is at the head of the function's body
Entering(name) == pc = "entry" /\ fn = name

Looping(name) == pc = "loop" /\ fn = name

Inputs == <<config, sections, activities, injections>>

CallComputeSchedule(A) ==
  /\ pc = "idle"
  /\ \E a \in A : Call("computeSchedule", [a EXCEPT !.injections = << >>])

\* the sorted copy of the sections, the grouping of the activities and the
\* initial clock
ComputeScheduleEnter ==
  /\ Entering("computeSchedule")
  /\ LET sorted == SortedCopy(sections, OrderedSections(sections))
     IN  /\ sections' = sorted.array
         /\ todo' = WalkOrder(sorted.result, activities)
  /\ st' = csInit(config)
  /\ pc' = "loop"
  /\ UNCHANGED <<config, activities, injections, fn>>

ComputeScheduleStep ==
  /\ Looping("computeSchedule")
  /\ todo # << >>
  /\ st' = csStep(config, st, Head(todo))
  /\ todo' = Tail(todo)
  /\ pc' = IF st'.returned THEN "done" ELSE "loop"
  /\ UNCHANGED <<Inputs, fn>>

ComputeScheduleReturn ==
  /\ Looping("computeSchedule")
  /\ todo = << >>
  /\ st' = csFinish(config, OrderedSections(sections), st)
  /\ pc' = "done"
  /\ UNCHANGED <<Inputs, fn, todo>>

CallPlanInjections(A) ==
  /\ pc = "idle"
  /\ \E a \in A : Call("planInjections", [a EXCEPT !.injections = << >>])

PlanInjectionsEnter ==
  /\ Entering("planInjections")
  /\ LET sorted == SortedCopy(sections, OrderedSections(sections))
     IN  /\ sections' = sorted.array
         /\ todo' = WalkOrder(sorted.result, activities)
  /\ st' = piInit
  /\ pc' = "loop"
  /\ UNCHANGED <<config, activities, injections, fn>>

PlanInjectionsStep ==
  /\ Looping("planInjections")
  /\ todo # << >>
  /\ st' = piStep(config, st, Head(todo))
  /\ todo' = Tail(todo)
  /\ pc' = IF st'.returned THEN "done" ELSE "loop"
  /\ UNCHANGED <<Inputs, fn>>

PlanInjectionsReturn ==
  /\ Looping("planInjections")
  /\ todo = << >>
  /\ st' = piFinish(config, OrderedSections(sections), activities, st)
  /\ pc' = "done"
  /\ UNCHANGED <<Inputs, fn, todo>>

CallBuildScheduleWithInjections(A) ==
  /\ pc = "idle"
  /\ \E a \in A : Call("buildScheduleWithInjections", a)

\* the sorted copy of the sections, the grouping of the activities; the
\* injections are grouped into new arrays, and those are what is sorted
BuildScheduleWithInjectionsEnter ==
  /\ Entering("buildScheduleWithInjections")
  /\ LET sorted == SortedCopy(sections, OrderedSections(sections))
     IN  /\ sections' = sorted.array
         /\ todo' = WalkOrder(sorted.result, activities)
  /\ st' = bwInit(config)
  /\ pc' = "loop"
  /\ UNCHANGED <<config, activities, injections, fn>>

BuildScheduleWithInjectionsStep ==
  /\ Looping("buildScheduleWithInjections")
  /\ todo # << >>
  /\ st' = bwStep(config, injections, st, Head(todo))
  /\ todo' = Tail(todo)
  /\ pc' = IF st'.returned THEN "done" ELSE "loop"
  /\ UNCHANGED <<Inputs, fn>>

BuildScheduleWithInjectionsReturn ==
  /\ Looping("buildScheduleWithInjections")
  /\ todo = << >>
  /\ st' = [st EXCEPT !.returned = TRUE]
  /\ pc' = "done"
  /\ UNCHANGED <<Inputs, fn, todo>>

CallBuildScheduleFromActivities(A) ==
  /\ pc = "idle"
  /\ \E a \in A :
       Call("buildScheduleFromActivities", [a EXCEPT !.injections = << >>])

BuildScheduleFromActivitiesEnter ==
  /\ Entering("buildScheduleFromActivities")
  /\ LET sorted == SortedCopy(sections, DayOrderedSections(sections))
     IN  /\ sections' = sorted.array
         /\ todo' = DayWalkOrder(sorted.result, activities)
         /\ st' = baInit(config, sorted.result)
  /\ pc' = "loop"
  /\ UNCHANGED <<config, activities, injections, fn>>

BuildScheduleFromActivitiesStep ==
  /\ Looping("buildScheduleFromActivities")
  /\ todo # << >>
  /\ st' = baStep(config, st, Head(todo))
  /\ todo' = Tail(todo)
  /\ pc' = "loop"
  /\ UNCHANGED <<Inputs, fn>>

BuildScheduleFromActivitiesReturn ==
  /\ Looping("buildScheduleFromActivities")
  /\ todo = << >>
  /\ st' = [st EXCEPT !.returned = TRUE]
  /\ pc' = "done"
  /\ UNCHANGED <<Inputs, fn, todo>>

Next ==
  \/ CallComputeSchedule(MainArgs)
  \/ ComputeScheduleEnter
  \/ ComputeScheduleStep
  \/ ComputeScheduleReturn
  \/ CallPlanInjections(MainArgs)
  \/ PlanInjectionsEnter
  \/ PlanInjectionsStep
  \/ PlanInjectionsReturn
  \/ CallBuildScheduleWithInjections(MainArgs)
  \/ BuildScheduleWithInjectionsEnter
  \/ BuildScheduleWithInjectionsStep
  \/ BuildScheduleWithInjectionsReturn
  \/ CallBuildScheduleFromActivities(MainArgs)
  \/ BuildScheduleFromActivitiesEnter
  \/ BuildScheduleFromActivitiesStep
  \/ BuildScheduleFromActivitiesReturn

Spec == Init /\ [][Next]_vars

\* the Direct Walker alone, on the five-minute day
NextDirect ==
  \/ CallComputeSchedule(DirectArgs)
  \/ ComputeScheduleEnter
  \/ ComputeScheduleStep
  \/ ComputeScheduleReturn

SpecDirect == Init /\ [][NextDirect]_vars

\* the Direct Walker alone, on the scenario's day
NextScenario ==
  \/ CallComputeSchedule(ScenarioArgs)
  \/ ComputeScheduleEnter
  \/ ComputeScheduleStep
  \/ ComputeScheduleReturn

SpecScenario == Init /\ [][NextScenario]_vars

\* the Direct Walker alone, with lunch targets around the day's bounds
NextFinalLunch ==
  \/ CallComputeSchedule(FinalLunchArgs)
  \/ ComputeScheduleEnter
  \/ ComputeScheduleStep
  \/ ComputeScheduleReturn

SpecFinalLunch == Init /\ [][NextFinalLunch]_vars

\* the Injection Planner alone
NextPlan ==
  \/ CallPlanInjections(PlanArgs)
  \/ PlanInjectionsEnter
  \/ PlanInjectionsStep
  \/ PlanInjectionsReturn

SpecPlan == Init /\ [][NextPlan]_vars

\* the Injection Renderer alone
NextRender ==
  \/ CallBuildScheduleWithInjections(RenderArgs)
  \/ BuildScheduleWithInjectionsEnter
  \/ BuildScheduleWithInjectionsStep
  \/ BuildScheduleWithInjectionsReturn

SpecRender == Init /\ [][NextRender]_vars

\* the call in progress has returned: st holds what it returned
Returned(name) == pc = "done" /\ fn = name

\* buildScheduleWithInjections(config, sections, activities,
\*                             planInjections(config, sections, activities))
CallBuildScheduleWithPlanned ==
  /\ Returned("planInjections")
  /\ Call("buildScheduleWithInjections",
          [config |-> config, sections |-> sections, activities |-> activities,
           injections |-> st.injections])

\* parseTimeToMin has no loop: the call returns in one step
ParseTimeToMin ==
  /\ pc = "idle"
  /\ \E value \in Texts :
       st' = [value |-> value, result |-> parseTimeToMin(value)]
  /\ fn' = "parseTimeToMin"
  /\ pc' = "done"
  /\ UNCHANGED <<Inputs, todo>>

NextParse == ParseTimeToMin

SpecParse == Init /\ [][NextParse]_vars

\* the Day-Partitioned Walker alone
NextDayWalk ==
  \/ CallBuildScheduleFromActivities(DayWalkArgs)
  \/ BuildScheduleFromActivitiesEnter
  \/ BuildScheduleFromActivitiesStep
  \/ BuildScheduleFromActivitiesReturn

SpecDayWalk == Init /\ [][NextDayWalk]_vars

\* the planner, then the renderer on the planner's list
NextRoundTrip ==
  \/ CallPlanInjections(RoundTripArgs)
  \/ PlanInjectionsEnter
  \/ PlanInjectionsStep
  \/ PlanInjectionsReturn
  \/ CallBuildScheduleWithPlanned
  \/ BuildScheduleWithInjectionsEnter
  \/ BuildScheduleWithInjectionsStep
  \/ BuildScheduleWithInjectionsReturn

SpecRoundTrip == Init /\ [][NextRoundTrip]_vars

\* the three row producers
NextProducers ==
  \/ CallComputeSchedule(ProducerArgs)
  \/ ComputeScheduleEnter
  \/ ComputeScheduleStep
  \/ ComputeScheduleReturn
  \/ CallBuildScheduleWithInjections(ProducerArgs)
  \/ BuildScheduleWithInjectionsEnter
  \/ BuildScheduleWithInjectionsStep
  \/ BuildScheduleWithInjectionsReturn
  \/ CallBuildScheduleFromActivities(ProducerArgs)
  \/ BuildScheduleFromActivitiesEnter
  \/ BuildScheduleFromActivitiesStep
  \/ BuildScheduleFromActivitiesReturn

SpecProducers == Init /\ [][NextProducers]_vars

\* the Day-Partitioned Walker on days that its activities overrun
NextIgnored ==
  \/ CallBuildScheduleFromActivities(IgnoredArgs)
  \/ BuildScheduleFromActivitiesEnter
  \/ BuildScheduleFromActivitiesStep
  \/ BuildScheduleFromActivitiesReturn

SpecIgnored == Init /\ [][NextIgnored]_vars

\* the three row producers, the renderer on the planner's list
NextAgree ==
  \/ CallComputeSchedule(AgreeArgs)
  \/ ComputeScheduleEnter
  \/ ComputeScheduleStep
  \/ ComputeScheduleReturn
  \/ CallPlanInjections(AgreeArgs)
  \/ PlanInjectionsEnter
  \/ PlanInjectionsStep
  \/ PlanInjectionsReturn
  \/ CallBuildScheduleWithPlanned
  \/ BuildScheduleWithInjectionsEnter
  \/ BuildScheduleWithInjectionsStep
  \/ BuildScheduleWithInjectionsReturn
  \/ CallBuildScheduleFromActivities(AgreeArgs)
  \/ BuildScheduleFromActivitiesEnter
  \/ BuildScheduleFromActivitiesStep
  \/ BuildScheduleFromActivitiesReturn

SpecAgree == Init /\ [][NextAgree]_vars

\* the minute values a time input is given: the minutes of a day, and
\* some of the day after
MaxMinute == 1500

\* a time input shows formatMin24(minutes) and parses the text it holds
\* with parseTimeToMin
ShowAndParse ==
  /\ pc = "idle"
  /\ \E min \in 0..MaxMinute :
       st' = [min |-> min, text |-> formatMin24(min),
              result |-> parseTimeToMin(formatMin24(min))]
  /\ fn' = "formatMin24"
  /\ pc' = "done"
  /\ UNCHANGED <<Inputs, todo>>

NextFormat == ShowAndParse

SpecFormat == Init /\ [][NextFormat]_vars

\* the host at work on its lists: at most MaxSections sections and
\* MaxActivities activities at a time
MaxSections == 2

SectionIdPool == <<"s1", "s2", "s3", "s4">>

\* uid(): an id that no section carries
FreshSectionId ==
  LET i == CHOOSE i \in 1..MaxSections :
             /\ \A k \in 1..Len(sections) : sections[k].id # <<SectionIdPool[i]>>
             /\ \A j \in 1..(i - 1) :
                  \E k \in 1..Len(sections) : sections[k].id = <<SectionIdPool[j]>>
  IN  <<SectionIdPool[i]>>

\* uid(): an id that no activity carries
FreshActivityId ==
  LET i == CHOOSE i \in 1..MaxActivities :
             /\ \A k \in 1..Len(activities) : activities[k].id # <<Alphabet[i]>>
             /\ \A j \in 1..(i - 1) :
                  \E k \in 1..Len(activities) : activities[k].id = <<Alphabet[j]>>
  IN  <<Alphabet[i]>>

SectionIds == {sections[k].id : k \in 1..Len(sections)}

ActivityIds == {activities[i].id : i \in 1..Len(activities)}

HostOperation(name) ==
  /\ fn' = name
  /\ UNCHANGED <<config, injections, pc, st, todo>>

AddSection ==
  /\ pc = "idle"
  /\ Len(sections) < MaxSections
  /\ Len(sections) # 0 => MaxOrder(sections) <= MaxSections
  /\ sections' = addSection(sections, FreshSectionId)
  /\ UNCHANGED activities
  /\ HostOperation("addSection")

RemoveSection ==
  /\ pc = "idle"
  /\ \E id \in SectionIds :
       LET next == removeSection(sections, activities, id)
       IN  /\ sections' = next.sections
           /\ activities' = next.activities
  /\ HostOperation("removeSection")

AddActivity ==
  /\ pc = "idle"
  /\ Len(activities) < MaxActivities
  /\ \E sectionId \in SectionIds :
       activities' = addActivity(activities, FreshActivityId, sectionId)
  /\ UNCHANGED sections
  /\ HostOperation("addActivity")

RemoveActivity ==
  /\ pc = "idle"
  /\ \E id \in ActivityIds : activities' = removeActivity(activities, id)
  /\ UNCHANGED sections
  /\ HostOperation("removeActivity")

\* a drop on an activity, on a section, or on neither; "zz" is the id of
\* an activity that is no longer there
Reorder ==
  /\ pc = "idle"
  /\ \E id \in ActivityIds :
       \E overId \in {None, Some(<<"zz">>)} \cup {Some(a) : a \in ActivityIds} :
         \E overSectionId \in {None} \cup {Some(s) : s \in SectionIds} :
           activities' = reorder(activities, id, overId, overSectionId)
  /\ UNCHANGED sections
  /\ HostOperation("reorder")

NextHost ==
  \/ AddSection
  \/ RemoveSection
  \/ AddActivity
  \/ RemoveActivity
  \/ Reorder

SpecHost == Init /\ [][NextHost]_vars

\* reorder alone, on every list the host can hold over two sections: the
\* ids differ, each activity is one addActivity made
ReorderSections == <<Sec("s1", 1, None), Sec("s2", 2, None)>>

ReorderActivities ==
  {addActivity(<< >>, <<Alphabet[i]>>, s.id)[1] :
     i \in 1..MaxActivities, s \in {ReorderSections[k] : k \in 1..2}}

ReorderLists ==
  UNION {{l \in [1..n -> ReorderActivities] :
            \A i \in 1..n : \A j \in 1..n : l[i].id = l[j].id => i = j} :
         n \in 0..MaxActivities}

InitReorder ==
  /\ config = Cfg(540, 960, Some(1), On(90, 15), On(720, 60))
  /\ sections = ReorderSections
  /\ activities \in ReorderLists
  /\ injections = << >>
  /\ fn = "none"
  /\ pc = "idle"
  /\ st = [rows |-> << >>]
  /\ todo = << >>

\* one drop: of an activity of the list or of one that is gone ("zz"), on
\* an activity, on a section, or on neither
CallReorder ==
  /\ pc = "idle"
  /\ \E id \in ActivityIds \cup {<<"zz">>} :
       \E overId \in {None, Some(<<"zz">>)} \cup {Some(a) : a \in ActivityIds} :
         \E overSectionId \in {None} \cup {Some(s) : s \in SectionIds} :
           /\ activities' = reorder(activities, id, overId, overSectionId)
           /\ st' = [rows |-> << >>, id |-> id, overId |-> overId,
                     overSectionId |-> overSectionId, prev |-> activities]
  /\ fn' = "reorder"
  /\ pc' = "done"
  /\ UNCHANGED <<config, sections, injections, todo>>

NextReorder == CallReorder

SpecReorder == InitReorder /\ [][NextReorder]_vars

----------------------------------------------------------------------------
(* Properties of the rows of every row producer *)

Producers ==
  {"computeSchedule", "buildScheduleWithInjections", "buildScheduleFromActivities"}

\* the rows built so far by the producer in progress
Rows == IF fn \in Producers THEN st.rows ELSE << >>

NoNegativeDuration ==
  /\ \A i \in 1..Len(activities) : activities[i].durationMin >= 0
  /\ \A i \in 1..Len(injections) : injections[i].durationMin >= 0
  /\ config.breakDurationMin = None \/ config.breakDurationMin[1] >= 0
  /\ config.lunchDurationMin = None \/ config.lunchDurationMin[1] >= 0

\* C2, as claimed: in the rows of every row producer, for all inputs, every
\* row's startMin is greater than or equal to the startMin of the row before it.
C2_StartsNeverDecrease ==
  \A i \in 1..(Len(Rows) - 1) : Rows[i + 1].startMin >= Rows[i].startMin

\* C2, amended: when no activity, injection, break or lunch has a negative
\* duration, every row other than the overflow row starts at or after the
\* start of the row before it, or (buildScheduleWithInjections and
\* buildScheduleFromActivities only) starts at dayStartMin, where a new day
\* begins.
C2_StartsNeverDecreaseWithinDay ==
  NoNegativeDuration =>
    \A i \in 1..(Len(Rows) - 1) :
      Rows[i + 1].type # "overflow" =>
        \/ Rows[i + 1].startMin >= Rows[i].startMin
        \/ /\ fn # "computeSchedule"
           /\ Rows[i + 1].startMin = config.dayStartMin

\* a renderer call that rolled over to a second day and returned three rows
C2_Witness ==
  /\ Returned("buildScheduleWithInjections")
  /\ NoNegativeDuration
  /\ st.dayIndex = 1
  /\ Len(st.rows) >= 3
  /\ \E i \in 1..(Len(st.rows) - 1) : st.rows[i + 1].startMin < st.rows[i].startMin

\* C3: in the rows of every row producer, every activity row satisfies
\* endMin - startMin = durationMin of the activity it carries, for any
\* duration, zero and negative ones included.
C3_ActivityRowSpansDuration ==
  \A i \in 1..Len(Rows) :
    Rows[i].type = "activity" =>
      Rows[i].endMin - Rows[i].startMin = Rows[i].activity.durationMin

\* a returned schedule with a row of a negative and a row of a zero duration
C3_Witness ==
  /\ pc = "done"
  /\ \E i, j \in 1..Len(Rows) :
       /\ Rows[i].type = "activity" /\ Rows[i].activity.durationMin < 0
       /\ Rows[j].type = "activity" /\ Rows[j].activity.durationMin = 0

\* C11: no step of a call of computeSchedule, planInjections,
\* buildScheduleWithInjections or buildScheduleFromActivities changes the
\* config, the section list, the activity list or the injection list it was
\* called with: their order, their length and every field of every record
\* stay as the caller passed them.
C11_InputsNeverChange == [][pc # "idle" => UNCHANGED Inputs]_vars

\* a renderer call has returned rows for sections that were passed out of
\* order and injections that were passed out of anchor order
C11_Witness ==
  /\ Returned("buildScheduleWithInjections")
  /\ sections # OrderedSections(sections)
  /\ \E sid \in {sections[i].id : i \in 1..Len(sections)} :
       SectionInjections(injections, sid)
         # SelectSeq(injections, LAMBDA inj : inj.sectionId = sid)
  /\ Len(st.rows) >= 3

----------------------------------------------------------------------------
(* Properties of computeSchedule *)

RowShape(r) == <<r.type, r.startMin, r.endMin>>

Shapes(rows) == [i \in 1..Len(rows) |-> RowShape(rows[i])]

Durations(acts) == [i \in 1..Len(acts) |-> acts[i].durationMin]

RowsOfType(rows, type) == {i \in 1..Len(rows) : rows[i].type = type}

\* the scenario of C1: three activities of 20, 45 and 30 minutes, no lunch
C1_Scenario ==
  /\ Returned("computeSchedule")
  /\ config = ScenarioBreaks
  /\ Durations(activities) = <<20, 45, 30>>

\* C1, as claimed: the scenario returns exactly four rows, activity 1 at
\* [540,560), a break at [560,575), activity 2 at [575,620) and activity 3
\* at [620,650), with no break row before activity 3.
C1_FourRows ==
  C1_Scenario =>
    Shapes(st.rows) = << <<"activity", 540, 560>>, <<"break", 560, 575>>,
                         <<"activity", 575, 620>>, <<"activity", 620, 650>> >>

\* C1, amended: the scenario returns exactly five rows, activity 1 at
\* [540,560), a break at [560,575), activity 2 at [575,620), a second break
\* at [620,635) (45 + 30 > 60) and activity 3 at [635,665).
C1_FiveRows ==
  C1_Scenario =>
    /\ Shapes(st.rows) = << <<"activity", 540, 560>>, <<"break", 560, 575>>,
                            <<"activity", 575, 620>>, <<"break", 620, 635>>,
                            <<"activity", 635, 665>> >>
    /\ st.rows[1].id = activities[1].id
    /\ st.rows[3].id = activities[2].id
    /\ st.rows[5].id = activities[3].id

C1_Witness == C1_Scenario /\ Len(st.rows) = 5

RECURSIVE Sum(_)
Sum(s) == IF s = << >> THEN 0 ELSE Head(s) + Sum(Tail(s))

\* the activities computeSchedule walks, in walk order
Walked ==
  LET items == WalkOrder(OrderedSections(sections), activities)
  IN  [i \in 1..Len(items) |-> items[i].activity]

ActivityIdsOf(rows) ==
  LET acts == SelectSeq(rows, LAMBDA r : r.type = "activity")
  IN  [i \in 1..Len(acts) |-> acts[i].id]

\* C4: whenever the total duration of the walked activities exceeds
\* dayEnd - dayStart, computeSchedule returns exactly one overflow row, that
\* row is last, it directly follows the first activity row that ends past
\* dayEnd, and the activity rows are those of the walk up to that activity.
C4_OverflowEndsTheWalk ==
  (Returned("computeSchedule")
     /\ Sum(Durations(Walked)) > config.dayEndMin - config.dayStartMin) =>
    LET rows == st.rows
        n == Len(rows)
        ids == ActivityIdsOf(rows)
    IN  /\ RowsOfType(rows, "overflow") = {n}
        /\ n >= 2
        /\ rows[n - 1].type = "activity"
        /\ rows[n - 1].endMin > config.dayEndMin
        /\ \A i \in 1..(n - 2) :
             rows[i].type = "activity" => rows[i].endMin <= config.dayEndMin
        /\ Len(ids) <= Len(Walked)
        /\ \A i \in 1..Len(ids) : ids[i] = Walked[i].id

\* an overflow after a break and a lunch, with an activity left unplaced
C4_Witness ==
  /\ Returned("computeSchedule")
  /\ Sum(Durations(Walked)) > config.dayEndMin - config.dayStartMin
  /\ RowsOfType(st.rows, "overflow") # {}
  /\ RowsOfType(st.rows, "break") # {}
  /\ RowsOfType(st.rows, "lunch") # {}
  /\ Len(ActivityIdsOf(st.rows)) < Len(Walked)

\* C5: a call of computeSchedule returns at most one lunch row, counting the
\* lunch inserted during the walk and the lunch appended after it.
C5_AtMostOneLunch ==
  fn = "computeSchedule" => Cardinality(RowsOfType(st.rows, "lunch")) <= 1

\* lunch was inserted during the walk, and the walk ended within the day
\* with two days configured
C5_Witness ==
  /\ Returned("computeSchedule")
  /\ st.lunchInserted
  /\ st.clock <= config.dayEndMin
  /\ config.numberOfDays = Some(2)
  /\ st.rows[Len(st.rows)].type = "activity"
  /\ Cardinality(RowsOfType(st.rows, "lunch")) = 1

\* C6: with the scenario's lunch settings and activities whose placement
\* runs past minute 720, the output holds exactly one lunch row, and that row
\* stands immediately before the activity that would otherwise have
\* overlapped minute 720.
C6_OneLunchBeforeNoon ==
  (Returned("computeSchedule")
     /\ config = ScenarioLunch
     /\ \E i \in 1..Len(st.rows) :
          st.rows[i].type = "activity" /\ st.rows[i].endMin > 720) =>
    \E k \in 1..(Len(st.rows) - 1) :
      /\ RowsOfType(st.rows, "lunch") = {k}
      /\ st.rows[k + 1].type = "activity"
      /\ st.rows[k].startMin <= 720
      /\ st.rows[k].startMin + st.rows[k + 1].activity.durationMin > 720

\* an iteration of computeSchedule's loop is about to run with lunch
\* configured and not yet inserted
LunchPending ==
  /\ Looping("computeSchedule")
  /\ todo # << >>
  /\ Truthy(config.lunchTargetMin)
  /\ Truthy(config.lunchDurationMin)
  /\ ~st.lunchInserted

\* C14, as claimed: with lunch configured and not yet inserted, a lunch row
\* is emitted before an activity exactly when
\* clock < lunchTarget <= clock + activityDuration, the case where the
\* activity would end exactly at lunchTarget included.
C14_LunchWhenReachingTarget ==
  [][LunchPending =>
       ((Len(st'.rows) > Len(st.rows) /\ st'.rows[Len(st.rows) + 1].type = "lunch")
          <=> (/\ st.clock < config.lunchTargetMin[1]
               /\ config.lunchTargetMin[1]
                    <= st.clock + Head(todo).activity.durationMin))]_vars

\* C14, amended: with lunch configured and not yet inserted, a lunch row is
\* emitted before an activity exactly when
\* clock < lunchTarget < clock + activityDuration; an activity that would end
\* exactly at lunchTarget gets no lunch row before it.
C14_LunchWhenCrossingTarget ==
  [][LunchPending =>
       ((Len(st'.rows) > Len(st.rows) /\ st'.rows[Len(st.rows) + 1].type = "lunch")
          <=> (/\ st.clock < config.lunchTargetMin[1]
               /\ config.lunchTargetMin[1]
                    < st.clock + Head(todo).activity.durationMin))]_vars

\* an activity that started before the lunch target and ends exactly at it
\* was placed with no lunch row before it
C14_Witness ==
  /\ fn = "computeSchedule"
  /\ Truthy(config.lunchTargetMin)
  /\ Truthy(config.lunchDurationMin)
  /\ Len(st.rows) >= 2
  /\ ~st.lunchInserted
  /\ st.rows[Len(st.rows)].type = "activity"
  /\ st.rows[Len(st.rows)].startMin < config.lunchTargetMin[1]
  /\ st.rows[Len(st.rows)].endMin = config.lunchTargetMin[1]

\* rows i..j are activity rows, and row i is the first row or follows a
\* break or lunch row
Stretch(rows, i, j) ==
  /\ i <= j
  /\ \A k \in i..j : rows[k].type = "activity"
  /\ i = 1 \/ rows[i - 1].type \in {"break", "lunch"}

StretchMinutes(rows, i, j) ==
  Sum([k \in 1..(j - i + 1) |-> rows[i + k - 1].activity.durationMin])

\* C16: in the rows of computeSchedule, with break interval and break
\* duration configured and no negative activity duration, the activity rows
\* that follow a break or lunch row (or the start of the output) with no
\* break or lunch row between them never sum to more than breakInterval,
\* unless they are a single activity longer than breakInterval.
C16_StretchWithinInterval ==
  (fn = "computeSchedule" /\ BreaksConfigured(config)
     /\ \A a \in 1..Len(activities) : activities[a].durationMin >= 0) =>
    \A i, j \in 1..Len(st.rows) :
      Stretch(st.rows, i, j) =>
        \/ StretchMinutes(st.rows, i, j) <= config.breakIntervalMin[1]
        \/ i = j

\* two activities that fill the interval exactly, then a break and a single
\* activity longer than the interval
C16_Witness ==
  /\ Returned("computeSchedule")
  /\ BreaksConfigured(config)
  /\ \A a \in 1..Len(activities) : activities[a].durationMin >= 0
  /\ Len(st.rows) >= 4
  /\ Stretch(st.rows, 1, 2)
  /\ StretchMinutes(st.rows, 1, 2) = config.breakIntervalMin[1]
  /\ st.rows[3].type = "break"
  /\ Stretch(st.rows, 4, 4)
  /\ StretchMinutes(st.rows, 4, 4) > config.breakIntervalMin[1]

\* before the activity this iteration places, both a break and the lunch
\* are due
BreakAndLunchDue ==
  /\ Looping("computeSchedule")
  /\ todo # << >>
  /\ BreaksConfigured(config)
  /\ st.minutesSinceBreak + Head(todo).activity.durationMin
       > config.breakIntervalMin[1]
  /\ Truthy(config.lunchTargetMin)
  /\ Truthy(config.lunchDurationMin)
  /\ ~st.lunchInserted
  /\ st.clock < config.lunchTargetMin[1]
  /\ st.clock + Head(todo).activity.durationMin > config.lunchTargetMin[1]

NoAdjacentComputed(rows) ==
  \A i \in 1..(Len(rows) - 1) : ~(rows[i].computed /\ rows[i + 1].computed)

\* C17: computeSchedule never emits both a break row and a lunch row before
\* the same activity: when both are due before an activity, the lunch row
\* alone is emitted, followed by the activity; and no two computed (break,
\* lunch or overflow) rows are ever adjacent in its rows.
C17_LunchInsteadOfBreak ==
  [][fn' = "computeSchedule" =>
       /\ NoAdjacentComputed(st'.rows)
       /\ BreakAndLunchDue =>
            /\ Len(st'.rows) >= Len(st.rows) + 2
            /\ st'.rows[Len(st.rows) + 1].type = "lunch"
            /\ st'.rows[Len(st.rows) + 2].type = "activity"]_vars

\* a lunch row stands where a break was due as well: the activities since
\* the last break, with the one after the lunch row, exceed the interval
C17_Witness ==
  /\ Returned("computeSchedule")
  /\ BreaksConfigured(config)
  /\ \E i, k \in 1..(Len(st.rows) - 1) :
       /\ i < k
       /\ st.rows[k].type = "lunch"
       /\ st.rows[k + 1].type = "activity"
       /\ Stretch(st.rows, i, k - 1)
       /\ StretchMinutes(st.rows, i, k - 1) + st.rows[k + 1].activity.durationMin
            > config.breakIntervalMin[1]
       /\ \A a \in 1..Len(activities) : activities[a].durationMin > 0

\* the loops of computeSchedule ran to their end without an overflow and
\* without having inserted lunch, and lunch is configured
WalkEndedWithoutLunch ==
  /\ Looping("computeSchedule")
  /\ todo = << >>
  /\ Truthy(config.lunchTargetMin)
  /\ Truthy(config.lunchDurationMin)
  /\ ~st.lunchInserted

\* the end of the last placed row, dayStart if there is none
EndOfLastRow(rows) ==
  IF rows = << >> THEN config.dayStartMin ELSE rows[Len(rows)].endMin

\* the call returns the rows of the walk and one lunch row after them, which
\* starts at the end of the last placed row and carries the id of the last
\* section in order, or null when there is no section
FinalLunchAppended ==
  /\ Len(st'.rows) = Len(st.rows) + 1
  /\ SubSeq(st'.rows, 1, Len(st.rows)) = st.rows
  /\ LET row == st'.rows[Len(st'.rows)]
         ordered == OrderedSections(sections)
     IN  /\ row.type = "lunch"
         /\ row.startMin = EndOfLastRow(st.rows)
         /\ row.endMin = row.startMin + config.lunchDurationMin[1]
         /\ row.sectionId = IF ordered = << >> THEN None
                             ELSE Some(ordered[Len(ordered)].id)

C10_PastDayEndMeansOverflow ==
  (Returned("computeSchedule")
     /\ \E i \in 1..Len(st.rows) : st.rows[i].endMin > config.dayEndMin) =>
    st.rows[Len(st.rows)].type = "overflow"

----------------------------------------------------------------------------
(* Properties of planInjections *)

\* the walk of the planner
PlanWalk == WalkOrder(OrderedSections(sections), activities)

\* the day on which the planner's simulation places the i-th activity of
\* its walk: dayIndex after the i-th iteration, None when it stopped before
PlacedOn(i) ==
  LET s == piWalk(config, piInit, SubSeq(PlanWalk, 1, i))
  IN  IF s.returned THEN None ELSE Some(s.dayIndex)

\* the places in the walk of the activity an injection is anchored to
AnchorOf(inj) ==
  {i \in 1..Len(PlanWalk) : PlanWalk[i].activity.id = inj.anchorBeforeActivityId}

\* the returned injections of the given type anchored to an activity placed
\* on day d
PlannedOn(d, type) ==
  {k \in 1..Len(st.injections) :
     /\ st.injections[k].type = type
     /\ \E i \in AnchorOf(st.injections[k]) : PlacedOn(i) = Some(d)}

PlanDays == 0..(NumDays(config) - 1)

\* C7: for every simulated day, at most one returned lunch injection is
\* anchored to an activity that the simulation places on that day.
C7_OneLunchPerDay ==
  Returned("planInjections") =>
    \A d \in PlanDays : Cardinality(PlannedOn(d, "lunch")) <= 1

\* the k-th returned injection is rendered before (after) the lunch that is
\* the l-th: its anchor comes earlier (later) in the walk, or it has the
\* lunch's anchor and comes earlier (later) in the list
BeforeLunch(k, l) ==
  \E i \in AnchorOf(st.injections[k]), a \in AnchorOf(st.injections[l]) :
    i < a \/ (i = a /\ k < l)

AfterLunch(k, l) ==
  \E i \in AnchorOf(st.injections[k]), a \in AnchorOf(st.injections[l]) :
    i > a \/ (i = a /\ k > l)

\* C8: with break interval and duration configured, for every simulated day
\* with a planned lunch, an activity placed before it and an activity placed
\* after it, the returned list holds a break injection anchored at or before
\* the lunch anchor and a break injection anchored to an activity placed
\* after that day's lunch.
C8_BreakBeforeAndAfterLunch ==
  (Returned("planInjections") /\ BreaksConfigured(config)) =>
    \A d \in PlanDays : \A l \in PlannedOn(d, "lunch") :
      ((\E i \in 1..Len(PlanWalk), a \in AnchorOf(st.injections[l]) :
          i < a /\ PlacedOn(i) = Some(d))
         /\ (\E i \in 1..Len(PlanWalk), a \in AnchorOf(st.injections[l]) :
               i >= a /\ PlacedOn(i) = Some(d))) =>
        /\ \E k \in PlannedOn(d, "break") : BeforeLunch(k, l)
        /\ \E k \in PlannedOn(d, "break") : AfterLunch(k, l)

\* the break injections of the list that are anchored to an activity the
\* simulation places on day d
BreaksPlannedOn(injs, d) ==
  {k \in 1..Len(injs) :
     /\ injs[k].type = "break"
     /\ \E i \in AnchorOf(injs[k]) : PlacedOn(i) = Some(d)}

\* this iteration of the planner's loop detects a lunch crossing: it ends
\* with a new lunch injection
LunchCrossingDetected ==
  /\ Looping("planInjections")
  /\ todo # << >>
  /\ Len(st'.injections) > Len(st.injections)
  /\ st'.injections[Len(st'.injections)].type = "lunch"

\* the injection added just before the new lunch injection is a break with
\* the lunch's anchor
ForcedBreakAdded ==
  LET n == Len(st'.injections)
  IN  /\ n - 1 > Len(st.injections)
      /\ st'.injections[n - 1].type = "break"
      /\ st'.injections[n - 1].anchorBeforeActivityId
           = st'.injections[n].anchorBeforeActivityId

\* C15: when planInjections detects a lunch crossing on a day, it adds a
\* forced break injection with the same anchor immediately before the lunch
\* injection exactly when break interval and break duration are configured
\* and no break injection has been planned yet on that day.
C15_ForcedBreakOnlyIfNoneYet ==
  [][LunchCrossingDetected =>
       (ForcedBreakAdded
          <=> (/\ BreaksConfigured(config)
               /\ BreaksPlannedOn(st.injections, st'.dayIndex) = {}))]_vars

\* the planner walked every activity without running out of days, lunch is
\* configured, some activity is in a known section, and no lunch was planned
\* for the final day
NoLunchOnFinalDay ==
  /\ Looping("planInjections")
  /\ todo = << >>
  /\ Truthy(config.lunchTargetMin)
  /\ Truthy(config.lunchDurationMin)
  /\ PlanWalk # << >>
  /\ ~st.lunchPlanned

\* the activities of the last section in order
LastSectionList ==
  LET ordered == OrderedSections(sections)
  IN  ActivitiesOf(activities, ordered[Len(ordered)].id)

\* the list the call returns holds a lunch injection anchored before the
\* first activity of the last section in order
FinalLunchPlanned ==
  /\ LastSectionList # << >>
  /\ \E k \in 1..Len(st'.injections) :
       /\ st'.injections[k].type = "lunch"
       /\ st'.injections[k].anchorBeforeActivityId = LastSectionList[1].id

\* C22, as claimed: when lunch is configured, some activity is in a known
\* section and the planner walks all activities without running out of days,
\* then if no lunch was planned for the final day the returned list holds a
\* lunch injection anchored before the first activity of the last section in
\* order, in every such case.
C22_FinalLunchAlways == [][NoLunchOnFinalDay => FinalLunchPlanned]_vars

\* C22, amended: the same, provided the last section in order has at least
\* one activity; when it has none, no lunch injection is added.
C22_FinalLunchIfLastSectionHasActivity ==
  [][NoLunchOnFinalDay =>
       IF LastSectionList # << >> THEN FinalLunchPlanned
       ELSE st'.injections = st.injections]_vars

\* on the second day no lunch was planned during the walk, and the returned
\* list ends with the lunch anchored in the last of two sections
C22_Witness ==
  /\ Returned("planInjections")
  /\ todo = << >>
  /\ ~st.lunchPlanned
  /\ st.dayIndex = 1
  /\ Len(sections) = 2
  /\ LastSectionList # << >>
  /\ st.injections # << >>
  /\ st.injections[Len(st.injections)].type = "lunch"
  /\ st.injections[Len(st.injections)].anchorBeforeActivityId = LastSectionList[1].id
  /\ st.injections[Len(st.injections)].sectionId = <<"s2">>

\* the activity this iteration of the planner meets does not fit in the
\* remaining length of the current day, and no further day exists
OutOfDays ==
  /\ st.clockWithinDay + Head(todo).activity.durationMin
       > Max(1, config.dayEndMin - config.dayStartMin)
  /\ st.dayIndex + 1 >= Max(1, OrElse(config.numberOfDays, 1))

\* the ids of the activities from the one this iteration meets onwards
IdsFromHere == {todo[i].activity.id : i \in 1..Len(todo)}

\* C23: when planInjections meets an activity that does not fit in the
\* remaining length of the current day and no further day exists, it returns
\* at once with what was planned so far (and the post-lunch break owed, if
\* any): no returned injection is anchored to that activity or to any
\* activity after it in walk order; otherwise it goes on.  Its day index
\* never reaches max(1, numberOfDays).
C23_StopsWhenOutOfDays ==
  [][(Looping("planInjections") /\ todo # << >>) =>
       /\ st'.dayIndex < Max(1, OrElse(config.numberOfDays, 1))
       /\ IF OutOfDays
            THEN /\ pc' = "done"
                 /\ Len(st'.injections) <= Len(st.injections) + 1
                 /\ SubSeq(st'.injections, 1, Len(st.injections)) = st.injections
                 /\ \A k \in 1..Len(st'.injections) :
                      st'.injections[k].anchorBeforeActivityId \notin IdsFromHere
          ELSE pc' = "loop"]_vars

\* the planner stopped at the end of its only day with an activity left
\* unwalked, after planning a break and a lunch
C23_Witness ==
  /\ Returned("planInjections")
  /\ todo # << >>
  /\ st.dayIndex = 0
  /\ Len(st.injections) >= 2
  /\ \A k \in 1..Len(st.injections) :
       st.injections[k].anchorBeforeActivityId = activities[1].id

----------------------------------------------------------------------------
(* The round trip: planner, renderer, and the Day-Partitioned Walker *)

\* each section's day number is the day on which the planner's simulation
\* places that section's activities: day number 1 (or none) is day index 0
DaysMatch ==
  \A i \in 1..Len(PlanWalk) :
    PlacedOn(i) = Some(OrElse(PlanWalk[i].section.dayNumber, 1) - 1)

\* the start of the activity's row among the rows
StartIn(rows, id) ==
  rows[CHOOSE k \in 1..Len(rows) : rows[k].type = "activity" /\ rows[k].id = id]
    .startMin

\* every activity row of the renderer starts where the Day-Partitioned
\* Walker starts that activity
SameStarts ==
  LET walker == buildScheduleFromActivities(config, sections, activities)
  IN  \A i \in 1..Len(st.rows) :
        st.rows[i].type = "activity" =>
          /\ \E k \in 1..Len(walker) : walker[k].id = st.rows[i].id
          /\ st.rows[i].startMin = StartIn(walker, st.rows[i].id)

AnchorSection(inj) ==
  LET k == CHOOSE k \in 1..Len(activities) :
             activities[k].id = inj.anchorBeforeActivityId
  IN  activities[k].sectionId

\* C28: every injection returned by planInjections carries as sectionId the
\* section of the activity named by its anchorBeforeActivityId.
C28_SectionOfTheAnchor ==
  Returned("planInjections") =>
    \A k \in 1..Len(st.injections) :
      st.injections[k].sectionId = AnchorSection(st.injections[k])

DistinctActivityIds ==
  \A i \in 1..Len(activities) : \A j \in 1..Len(activities) :
    activities[i].id = activities[j].id => i = j

\* C29: given activities with pairwise distinct ids, the injections returned
\* by one call of planInjections have pairwise distinct ids.
C29_DistinctInjectionIds ==
  (Returned("planInjections") /\ DistinctActivityIds) =>
    \A i \in 1..Len(st.injections) : \A j \in 1..Len(st.injections) :
      st.injections[i].id = st.injections[j].id => i = j

----------------------------------------------------------------------------
(* Properties of buildScheduleFromActivities *)

\* the places in the activity list of the activities whose sectionId names
\* a supplied section
InKnownSection ==
  {a \in 1..Len(activities) :
     \E k \in 1..Len(sections) : sections[k].id = activities[a].sectionId}

\* C24: buildScheduleFromActivities never stops early and never synthesizes
\* rows: it returns activity rows only, exactly one for every activity whose
\* sectionId names a supplied section (and none for any other activity),
\* however far the clock runs past dayEnd.
C24_OneRowPerKnownActivity ==
  Returned("buildScheduleFromActivities") =>
    /\ \A i \in 1..Len(st.rows) :
         st.rows[i].type = "activity" /\ ~st.rows[i].computed
    /\ Len(st.rows) = Cardinality(InKnownSection)
    /\ \A a \in InKnownSection :
         Cardinality({i \in 1..Len(st.rows) :
                        st.rows[i].id = activities[a].id
                          /\ st.rows[i].activity = activities[a]}) = 1

\* a walk whose last row ends past dayEnd, over a lunch entry, with
\* an activity in no supplied section
C24_Witness ==
  /\ Returned("buildScheduleFromActivities")
  /\ Len(st.rows) = 2
  /\ Len(activities) = 3
  /\ st.rows[1].startMin = config.dayStartMin
  /\ st.rows[2].startMin > config.dayStartMin
  /\ st.rows[2].endMin > config.dayEndMin
  /\ \E a \in 1..Len(activities) : IsLunchEntry(activities[a])

\* a section's day: its dayNumber, or 1 when absent
DayOf(sectionId) ==
  LET k == CHOOSE k \in 1..Len(sections) : Some(sections[k].id) = sectionId
  IN  OrElse(sections[k].dayNumber, 1)

AllDaysFromOne ==
  \A k \in 1..Len(sections) : OrElse(sections[k].dayNumber, 1) >= 1

\* C25: in the rows of buildScheduleFromActivities, where a section's day is
\* its dayNumber or 1 when absent and all day numbers are >= 1, the first
\* activity row of each distinct day starts at dayStartMin, and every other
\* activity row starts exactly at the endMin of the row before it.
C25_ClockRestartsEachDay ==
  (fn = "buildScheduleFromActivities" /\ AllDaysFromOne) =>
    \A i \in 1..Len(st.rows) :
      IF i = 1 \/ DayOf(st.rows[i].sectionId) # DayOf(st.rows[i - 1].sectionId)
        THEN /\ st.rows[i].startMin = config.dayStartMin
             /\ \A k \in 1..(i - 1) :
                  DayOf(st.rows[k].sectionId) # DayOf(st.rows[i].sectionId)
      ELSE st.rows[i].startMin = st.rows[i - 1].endMin

\* three rows: two of day 1, in a section with no day number that was passed
\* after a section of day 2, and then the first row of day 2
C25_Witness ==
  /\ Returned("buildScheduleFromActivities")
  /\ AllDaysFromOne
  /\ Len(st.rows) = 3
  /\ sections[1].dayNumber = Some(2)
  /\ st.rows[1].sectionId = Some(<<"s2">>)
  /\ st.rows[2].startMin > config.dayStartMin
  /\ DayOf(st.rows[3].sectionId) = 2
  /\ st.rows[3].startMin < st.rows[2].endMin

\* the ends of day and the numbers of days the call is repeated with
OtherDayEnds == {0, 3, 20}

OtherDayCounts == {None, Some(1), Some(3)}

\* the activities with exactly those of the given places marked as lunch
\* entries of the system
Marked(acts, places) ==
  [i \in 1..Len(acts) |->
     IF i \in places
       THEN [acts[i] EXCEPT !.isSystem = TRUE,
                            !.systemKey = Some(<<"lunch:day", "1">>)]
     ELSE [acts[i] EXCEPT !.isSystem = FALSE, !.systemKey = None]]

\* id, section, start and end of every row
RowTimes(rows) ==
  [i \in 1..Len(rows) |->
     <<rows[i].id, rows[i].sectionId, rows[i].startMin, rows[i].endMin>>]

----------------------------------------------------------------------------
(* The order of the activity rows *)

RowProducers ==
  {"computeSchedule", "buildScheduleWithInjections", "buildScheduleFromActivities"}

ActivityRows == SelectSeq(st.rows, LAMBDA r : r.type = "activity")

\* where the section of a row stands in the input section list
SectionIndex(row) ==
  CHOOSE k \in 1..Len(sections) : Some(sections[k].id) = row.sectionId

\* where the activity of a row stands in the input activity list
ActivityIndex(row) ==
  CHOOSE k \in 1..Len(activities) : activities[k].id = row.id

\* the day a producer sorts a section by: none but the day-aware one does
SortDay(k) ==
  IF fn = "buildScheduleFromActivities" THEN OrElse(sections[k].dayNumber, 1)
  ELSE 1

SameKey(j, k) ==
  SortDay(j) = SortDay(k) /\ sections[j].order = sections[k].order

KeyBefore(j, k) ==
  \/ SortDay(j) < SortDay(k)
  \/ SortDay(j) = SortDay(k) /\ sections[j].order < sections[k].order

\* C26: in the output of every row producer, of two activity rows the one
\* whose section has the smaller sort key comes first (order alone for
\* computeSchedule and buildScheduleWithInjections; day number, absent
\* counted as 1, then order for buildScheduleFromActivities); with equal
\* keys the row of the section that stands first in the input comes first;
\* within one section the rows keep the order of the input activity list.
\* Hence the rows of one section are never interleaved with another's.
C26_RowsInSectionOrder ==
  fn \in RowProducers =>
    \A i \in 1..Len(ActivityRows) : \A j \in (i + 1)..Len(ActivityRows) :
      LET si == SectionIndex(ActivityRows[i])
          sj == SectionIndex(ActivityRows[j])
      IN  \/ KeyBefore(si, sj)
          \/ SameKey(si, sj) /\ si < sj
          \/ si = sj /\ ActivityIndex(ActivityRows[i]) < ActivityIndex(ActivityRows[j])

C26_Witness ==
  /\ Returned("buildScheduleFromActivities")
  /\ sections[1].dayNumber = Some(2)
  /\ Len(ActivityRows) = 3
  /\ ActivityRows[1].id = <<"a3">> /\ ActivityRows[1].sectionId = Some(<<"s2">>)
  /\ ActivityRows[2].id = <<"a2">> /\ ActivityRows[2].sectionId = Some(<<"s1">>)
  /\ ActivityRows[3].id = <<"a1">> /\ ActivityRows[3].sectionId = Some(<<"s3">>)

----------------------------------------------------------------------------
(* The timeline of computeSchedule *)

\* C27: in the output of computeSchedule the first row starts at dayStartMin
\* and every later row other than the overflow row starts exactly at the
\* endMin of the row before it.
C27_NoGapsNoOverlaps ==
  fn = "computeSchedule" =>
    \A i \in 1..Len(st.rows) :
      st.rows[i].type # "overflow" =>
        st.rows[i].startMin =
          IF i = 1 THEN config.dayStartMin ELSE st.rows[i - 1].endMin

C27_Witness ==
  /\ Returned("computeSchedule")
  /\ Len(st.rows) >= 5
  /\ \E i \in 2..Len(st.rows) : st.rows[i].type = "break"
  /\ \E i \in 2..Len(st.rows) : st.rows[i].type = "lunch"
  /\ st.rows[Len(st.rows)].type = "overflow"
  /\ st.rows[Len(st.rows)].startMin < st.rows[Len(st.rows) - 1].endMin

----------------------------------------------------------------------------
(* The days of the planner and of the renderer *)

\* the day on which the renderer places the i-th activity of the walk:
\* dayIndex after the i-th iteration, None when it reported overflow before
RenderedOn(i) ==
  LET s == bwWalk(config, injections, bwInit(config), SubSeq(PlanWalk, 1, i))
  IN  IF s.returned THEN None ELSE Some(s.dayIndex)

\* C30: when buildScheduleWithInjections replays the list planInjections
\* returned for the same config, sections and activities, it places every
\* activity on the day index of the planner's simulation, and it reports
\* overflow at the activity where the planner stopped.
C30_SameDaysAsPlanned ==
  (Returned("buildScheduleWithInjections")
     /\ injections = planInjections(config, sections, activities)) =>
    \A i \in 1..Len(PlanWalk) : RenderedOn(i) = PlacedOn(i)

----------------------------------------------------------------------------
(* Properties of the host's operations *)

\* C34: from a host state in which every activity's sectionId names an
\* existing section, addSection, removeSection, addActivity for an existing
\* section, removeActivity and reorder with overSectionId null or naming an
\* existing section keep it so: no activity ever names a section that is not
\* in the section list.
C34_ActivitiesNameSections ==
  \A i \in 1..Len(activities) : activities[i].sectionId \in SectionIds

\* the first section was removed with its activities, and the activity added
\* first was then dropped at the end of the remaining section
C34_Witness ==
  /\ fn = "reorder"
  /\ Len(sections) = 1
  /\ sections[1].order = 2
  /\ Len(activities) = 2
  /\ activities[1].id = <<"a2">>
  /\ activities[2].id = <<"a1">>

\* the activities other than the one with the given id, in their order
Others(acts, id) == SelectSeq(acts, LAMBDA a : a.id # id)

\* the place of the activity with the given id
PlaceOf(acts, id) == CHOOSE i \in 1..Len(acts) : acts[i].id = id

\* the list after the step has the moved activity directly before the
\* other one and in its section, and nothing else is changed
MovedBefore(id, overId) ==
  /\ Len(activities') = Len(activities)
  /\ Others(activities', id) = Others(activities, id)
  /\ Cardinality({i \in 1..Len(activities') : activities'[i].id = id}) = 1
  /\ PlaceOf(activities', id) + 1 = PlaceOf(activities', overId)
  /\ activities'[PlaceOf(activities', id)]
       = [activities[PlaceOf(activities, id)]
            EXCEPT !.sectionId = activities[PlaceOf(activities, overId)].sectionId]

\* C35: reorder(id, overId, overSectionId), for an existing activity id and
\* an overId naming another existing activity, leaves the activity list a
\* permutation of the same activities in which the moved activity stands
\* immediately before the overId activity and has taken that activity's
\* sectionId, while the relative order and all fields of every other
\* activity are unchanged.
C35_ReorderPutsBefore ==
  [][(/\ Returned("reorder")'
      /\ st'.id \in ActivityIds
      /\ st'.overId # None
      /\ st'.overId[1] \in ActivityIds \ {st'.id})
       => MovedBefore(st'.id, st'.overId[1])]_vars

\* the last activity of the list was dropped on the first, which is of
\* another section
C35_Witness ==
  /\ Returned("reorder")
  /\ Len(st.prev) = 3
  /\ st.id = st.prev[3].id
  /\ st.overId = Some(st.prev[1].id)
  /\ st.prev[3].sectionId # st.prev[1].sectionId
  /\ activities[1] = [st.prev[3] EXCEPT !.sectionId = st.prev[1].sectionId]
  /\ activities[2] = st.prev[1]
  /\ activities[3] = st.prev[2]

----------------------------------------------------------------------------
(* Activities of no section *)

\* the places of the activities whose sectionId names no supplied section
Strays ==
  {k \in 1..Len(activities) :
     \A j \in 1..Len(sections) : sections[j].id # activities[k].sectionId}

Without(s, k) == [i \in 1..(Len(s) - 1) |-> IF i < k THEN s[i] ELSE s[i + 1]]

\* what the call returned is what it returns for the given activities
ReturnsAsFor(acts) ==
  CASE fn = "computeSchedule" ->
         st.rows = computeSchedule(config, sections, acts)
    [] fn = "planInjections" ->
         st.injections = planInjections(config, sections, acts)
    [] fn = "buildScheduleWithInjections" ->
         st.rows = buildScheduleWithInjections(config, sections, acts, injections)
    [] fn = "buildScheduleFromActivities" ->
         st.rows = buildScheduleFromActivities(config, sections, acts)

\* C33: in every row producer and in planInjections, an activity whose
\* sectionId names no supplied section gets no row and no injection, and
\* what is returned is what is returned with that activity removed from the
\* input.
C33_StraysAreSkipped ==
  (pc = "done" /\ fn \in RowProducers \cup {"planInjections"}) =>
    \A k \in Strays :
      /\ IF fn = "planInjections"
           THEN \A i \in 1..Len(st.injections) :
                  st.injections[i].anchorBeforeActivityId # activities[k].id
         ELSE \A i \in 1..Len(st.rows) :
                /\ st.rows[i].id # activities[k].id
                /\ st.rows[i].type \in {"break", "lunch"} =>
                     \A j \in 1..Len(injections) :
                       injections[j].id = st.rows[i].id =>
                         injections[j].anchorBeforeActivityId # activities[k].id
      /\ ReturnsAsFor(Without(activities, k))

\* the renderer was given an injection anchored to the second activity,
\* which is of no section, between two activities that it placed
C33_Witness ==
  /\ Returned("buildScheduleWithInjections")
  /\ Strays = {2}
  /\ Len(activities) = 3
  /\ \E j \in 1..Len(injections) :
       injections[j].anchorBeforeActivityId = activities[2].id
  /\ \E i \in 1..Len(st.rows) : st.rows[i].id = activities[1].id
  /\ \E i \in 1..Len(st.rows) : st.rows[i].id = activities[3].id

----------------------------------------------------------------------------
(* The three row producers compared *)

RECURSIVE SumOfDurations(_)
SumOfDurations(acts) ==
  IF acts = << >> THEN 0
  ELSE Head(acts).durationMin + SumOfDurations(Tail(acts))

\* no breaks, no lunch, one day, no day numbers, positive durations that
\* fit the day together
PlainDay ==
  /\ config.breakIntervalMin = None /\ config.breakDurationMin = None
  /\ config.lunchTargetMin = None /\ config.lunchDurationMin = None
  /\ config.numberOfDays = Some(1)
  /\ \A k \in 1..Len(sections) : sections[k].dayNumber = None
  /\ \A i \in 1..Len(activities) : activities[i].durationMin > 0
  /\ SumOfDurations(activities) <= config.dayEndMin - config.dayStartMin

\* the activity rows of a list of rows: id, section, start and end
ActivityTimes(rows) ==
  LET acts == SelectSeq(rows, LAMBDA r : r.type = "activity")
  IN  [i \in 1..Len(acts) |->
         <<acts[i].id, acts[i].sectionId, acts[i].startMin, acts[i].endMin>>]

\* C31: with breaks and lunch absent, numberOfDays = 1, no day numbers,
\* positive durations and a total duration of at most dayEnd - dayStart,
\* computeSchedule, buildScheduleWithInjections fed with the list of
\* planInjections (which is empty), and buildScheduleFromActivities return
\* the same activity rows with the same start and end minutes.
C31_ProducersAgree ==
  (pc = "done" /\ fn \in RowProducers /\ PlainDay) =>
    /\ planInjections(config, sections, activities) = << >>
    /\ injections = << >>
    /\ ActivityTimes(st.rows)
         = ActivityTimes(computeSchedule(config, sections, activities))
    /\ ActivityTimes(st.rows)
         = ActivityTimes(buildScheduleWithInjections(config, sections, activities,
                                                     << >>))
    /\ ActivityTimes(st.rows)
         = ActivityTimes(buildScheduleFromActivities(config, sections, activities))

C31_Witness ==
  /\ Returned("buildScheduleWithInjections")
  /\ PlainDay
  /\ Len(st.rows) = 3
  /\ st.rows[1].sectionId = Some(<<"s2">>)
  /\ st.rows[3].sectionId = Some(<<"s1">>)
  /\ st.rows[3].endMin = config.dayEndMin

----------------------------------------------------------------------------
(* Properties of parseTimeToMin *)

AllDigits(part) == part # << >> /\ \A i \in 1..Len(part) : IsDigit(part[i])

\* no colon, or an hour part or a minute part that is no number
Malformed(value) ==
  LET parts == Split(value)
  IN  \/ Len(parts) < 2
      \/ ~AllDigits(parts[1])
      \/ ~AllDigits(parts[2])

\* H:MM or HH:MM
WellFormed(value) ==
  LET parts == Split(value)
  IN  /\ Len(parts) = 2
      /\ AllDigits(parts[1]) /\ Len(parts[1]) \in {1, 2}
      /\ AllDigits(parts[2]) /\ Len(parts[2]) = 2

\* C13: parseTimeToMin returns null for every malformed text (no colon, or
\* an hour or minute part that is not numeric, the empty part included), and
\* hour * 60 + minute for well-formed H:MM or HH:MM text.
C13_ParseRejectsMalformed ==
  Returned("parseTimeToMin") =>
    /\ Malformed(st.value) => st.result = None
    /\ WellFormed(st.value) =>
         st.result = Some(Decimal(Split(st.value)[1]) * 60
                            + Decimal(Split(st.value)[2]))

\* C36: for every integer m with 0 <= m < 1440,
\* parseTimeToMin(formatMin24(m)) = m: formatting a minute of the day as
\* zero-padded 24-hour text and parsing it back returns the same value.
C36_FormatThenParse ==
  (Returned("formatMin24") /\ 0 <= st.min /\ st.min < 1440) =>
    /\ Len(st.text) = 5
    /\ st.result = Some(st.min)

C36_Witness ==
  /\ Returned("formatMin24")
  /\ st.min = 1439
  /\ st.text = <<"2", "3", ":", "5", "9">>
  /\ st.result = Some(1439)

----------------------------------------------------------------------------
(* Properties of buildScheduleWithInjections *)

RemoveAt(s, k) == [i \in 1..(Len(s) - 1) |-> IF i < k THEN s[i] ELSE s[i + 1]]

\* the injections whose anchor names no activity of the activity list
Orphans ==
  {k \in 1..Len(injections) :
     \A i \in 1..Len(activities) :
       activities[i].id # injections[k].anchorBeforeActivityId}

\* C9: when an injection's anchorBeforeActivityId names no activity of the
\* list, the call returns, the output has no row for that injection, and the
\* output is the output obtained with that injection removed from the list.
C9_OrphanInjectionIsInert ==
  Returned("buildScheduleWithInjections") =>
    \A k \in Orphans :
      /\ \A i \in 1..Len(st.rows) : st.rows[i].id # injections[k].id
      /\ st.rows = buildScheduleWithInjections(config, sections, activities,
                                               RemoveAt(injections, k))

PositiveDurations ==
  /\ \A i \in 1..Len(activities) : activities[i].durationMin > 0
  /\ \A i \in 1..Len(injections) : injections[i].durationMin > 0

\* C19: with positive activity and injection durations and
\* dayEnd > dayStart, every activity, break and lunch row returned by
\* buildScheduleWithInjections lies within the day:
\* dayStartMin <= startMin and endMin <= dayEndMin.
C19_RowsWithinDay ==
  (Returned("buildScheduleWithInjections") /\ PositiveDurations
     /\ config.dayEndMin > config.dayStartMin) =>
    \A i \in 1..Len(st.rows) :
      st.rows[i].type \in {"activity", "break", "lunch"} =>
        /\ config.dayStartMin <= st.rows[i].startMin
        /\ st.rows[i].endMin <= config.dayEndMin

\* the day index stays below max(1, numberOfDays): the clock was reset at
\* most numberOfDays - 1 times
DayIndexWithinDays(s) == s.dayIndex < Max(1, OrElse(config.numberOfDays, 1))

\* at most one overflow row, and that row is last
OverflowOnlyLast(s) == RowsOfType(s.rows, "overflow") \subseteq {Len(s.rows)}

\* after an overflow row the activity rows are those of the walk up to, and
\* without, the activity at which the walk stopped
StoppedAtOverflow(s) ==
  RowsOfType(s.rows, "overflow") # {} =>
    LET ids == ActivityIdsOf(s.rows)
    IN  /\ s.returned
        /\ Len(ids) < Len(Walked)
        /\ \A i \in 1..Len(ids) : ids[i] = Walked[i].id

\* the rows that this step adds on the last available day end by dayEnd
\* unless they are the overflow row
NothingPastDayEndOnLastDay ==
  (Looping("buildScheduleWithInjections")
     /\ st.dayIndex = Max(1, OrElse(config.numberOfDays, 1)) - 1) =>
    \A i \in (Len(st.rows) + 1)..Len(st'.rows) :
      st'.rows[i].type # "overflow" => st'.rows[i].endMin <= config.dayEndMin

\* C20: buildScheduleWithInjections keeps its day index below
\* max(1, numberOfDays); when an activity or an injection would end past
\* dayEnd on the last available day it emits one overflow row and stops, so
\* no other row on that day ends past dayEnd, the output holds at most one
\* overflow row, that row is last, and no row exists for the item that
\* triggered it or for any later activity.
C20_OverflowStopsOnLastDay ==
  [][(fn' = "buildScheduleWithInjections" /\ pc' # "entry") =>
       /\ DayIndexWithinDays(st')
       /\ OverflowOnlyLast(st')
       /\ StoppedAtOverflow(st')
       /\ NothingPastDayEndOnLastDay]_vars

\* an orphan stands first in the list, in the section of an anchored
\* injection that was rendered
C9_Witness ==
  /\ Returned("buildScheduleWithInjections")
  /\ Len(injections) = 2
  /\ 1 \in Orphans
  /\ 2 \notin Orphans
  /\ injections[1].sectionId = injections[2].sectionId
  /\ \E i \in 1..Len(st.rows) : st.rows[i].id = injections[2].id

\* the row was produced from an injection
IsInjectionRow(row) == row.type \in {"break", "lunch"}

\* the place in the injection list of the injection a row was produced from
InjectionOf(row) == CHOOSE k \in 1..Len(injections) : injections[k].id = row.id

AnchorOfRow(row) == injections[InjectionOf(row)].anchorBeforeActivityId

\* rows i+1..j-1 are injection rows with the anchor of row i
SameAnchorBetween(rows, i, j) ==
  \A k \in (i + 1)..(j - 1) :
    IsInjectionRow(rows[k]) /\ AnchorOfRow(rows[k]) = AnchorOfRow(rows[i])

\* C21: in the rows of buildScheduleWithInjections, every break or lunch row
\* produced from an injection is followed only by injection rows with the
\* same anchor and then by the activity row of its anchor, unless an overflow
\* row ends the output first; and injection rows of one section and one
\* anchor stand in the order their injections have in the list passed in.
C21_InjectionsBeforeTheirAnchor ==
  fn = "buildScheduleWithInjections" =>
    LET rows == st.rows
    IN  \A i \in 1..Len(rows) :
          IsInjectionRow(rows[i]) =>
            /\ \E j \in (i + 1)..Len(rows) :
                 /\ SameAnchorBetween(rows, i, j)
                 /\ \/ rows[j].type = "activity" /\ rows[j].id = AnchorOfRow(rows[i])
                    \/ rows[j].type = "overflow" /\ j = Len(rows)
            /\ \A k \in (i + 1)..Len(rows) :
                 (/\ IsInjectionRow(rows[k])
                  /\ AnchorOfRow(rows[k]) = AnchorOfRow(rows[i])
                  /\ rows[k].sectionId = rows[i].sectionId) =>
                   InjectionOf(rows[i]) < InjectionOf(rows[k])

\* two injections with one section and one anchor were rendered, one after
\* the other, before the second activity of the walk
C21_Witness ==
  /\ Returned("buildScheduleWithInjections")
  /\ Len(st.rows) >= 4
  /\ \E i \in 2..(Len(st.rows) - 2) :
       /\ IsInjectionRow(st.rows[i])
       /\ IsInjectionRow(st.rows[i + 1])
       /\ AnchorOfRow(st.rows[i]) = AnchorOfRow(st.rows[i + 1])
       /\ st.rows[i + 2].type = "activity"
       /\ st.rows[i + 2].id = AnchorOfRow(st.rows[i])

====
